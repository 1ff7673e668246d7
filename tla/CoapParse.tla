------------------------------ MODULE CoapParse ------------------------------
(***************************************************************************)
(* coap_parse of both boards, one action for each pass of its option loop, *)
(* over a datagram of any bytes.  Of the header only the length of the     *)
(* token is kept; a datagram is what follows the header.                   *)
(***************************************************************************)
EXTENDS CoapFormat

CONSTANTS
    MaxUri,         \* COAP_MAX_URI_PATH
    Datagrams       \* the datagrams that can arrive

CoapAssumption ==
    /\ MaxUri \in Nat \ {0}
    /\ \A d \in Datagrams : d.bytes \in Seq(Byte) /\ d.token_len \in 0..15

VARIABLES
    datagram,       \* the datagram being parsed
    offset,         \* bytes of it consumed
    last_opt_num,   \* the number of the last option
    uri,            \* uri_path, the uri_written bytes of it
    touched,        \* history: the last byte of the datagram that was looked at
    result          \* "header", "options", "parsed", or "rejected"

vars == <<datagram, offset, last_opt_num, uri, touched, result>>

buf == datagram.bytes
len == Len(buf)

MaxNumber == 65535      \* of an option, in a uint16_t

TypeOK ==
    /\ buf \in Seq(Byte)
    /\ datagram.token_len \in 0..15
    /\ offset \in Nat
    /\ last_opt_num \in 0..MaxNumber
    /\ uri \in Seq(Byte)
    /\ touched \in Nat
    /\ result \in {"header", "options", "parsed", "rejected"}

ParseInit(d) ==
    /\ datagram = d
    /\ offset = 0
    /\ last_opt_num = 0
    /\ uri = <<>>
    /\ touched = 0
    /\ result = "header"

Init == \E d \in Datagrams : ParseInit(d)

-----------------------------------------------------------------------------
\* The byte at position at, counted from 0 as in the code.  Behind the end of
\* the datagram lies what the buffer held before, here a zero.
At(at) == IF at < len THEN buf[at + 1] ELSE 0

Reject ==
    /\ result' = "rejected"
    /\ UNCHANGED <<datagram, offset, last_opt_num, uri>>

\* Version and token; a token is copied without being looked at.
Header ==
    /\ result = "header"
    /\ IF datagram.token_len > 8 \/ datagram.token_len > len
       THEN Reject
       ELSE /\ offset' = datagram.token_len
            /\ result' = "options"
            /\ UNCHANGED <<datagram, last_opt_num, uri>>
    /\ UNCHANGED touched

\* Mutant of Fits: the second extension byte is not checked for.
FitsOne(nibble, at) ==
    /\ nibble # 15
    /\ nibble \in {13, 14} => at < len

\* Whether the extension of a nibble, if it has one, lies in the datagram.
Fits(nibble, at) ==
    /\ nibble # 15
    /\ nibble = 13 => at < len
    /\ nibble = 14 => at + 1 < len

\* The value of a nibble with its extension at position at; it is kept in a
\* uint8_t.
Value(nibble, at) ==
    CASE nibble = 13 -> (13 + At(at)) % 256
      [] nibble = 14 -> (269 + 256 * At(at) + At(at + 1)) % 256
      [] OTHER -> nibble

Width(nibble) == CASE nibble = 13 -> 1 [] nibble = 14 -> 2 [] OTHER -> 0

\* A segment is appended behind a slash, as far as there is room.
Extended(path, value) ==
    LET start == IF path # <<>> /\ Len(path) < MaxUri - 1 THEN Append(path, Slash) ELSE path
        room == MaxUri - 1 - Len(start)
    IN  start \o SubSeq(value, 1, IF Len(value) < room THEN Len(value) ELSE room)

\* Mutant of PastValue: the parser stays where the option began.
PastValueNot(at, n) == offset

PastValue(at, n) == at + n

\* The value of an option of length n at position at ends the option.
Take(delta, n, at) ==
    LET number == (last_opt_num + delta) % (MaxNumber + 1)
    IN  /\ uri' = IF number = UriPath THEN Extended(uri, SubSeq(buf, at + 1, at + n)) ELSE uri
        /\ last_opt_num' = number
        /\ offset' = PastValue(at, n)
        /\ touched' = IF n > 0 THEN at + n ELSE at
        /\ UNCHANGED <<datagram, result>>

ReadOption ==
    /\ result = "options"
    /\ offset < len
    /\ At(offset) # Marker
    /\ LET delta == At(offset) \div 16
           length == At(offset) % 16
           at1 == offset + 1
           at2 == at1 + Width(delta)
           at3 == at2 + Width(length)
       IN  IF ~Fits(delta, at1) THEN Reject /\ touched' = at1
           ELSE IF ~Fits(length, at2) THEN Reject /\ touched' = at2
           ELSE IF at3 + Value(length, at2) > len THEN Reject /\ touched' = at3
           ELSE Take(Value(delta, at1), Value(length, at2), at3)

\* The marker, or the end of the datagram, ends the options; what is left is
\* the payload.
Finish ==
    /\ result = "options"
    /\ offset < len => At(offset) = Marker
    /\ offset' = IF offset < len THEN offset + 1 ELSE offset
    /\ touched' = offset'
    /\ result' = "parsed"
    /\ UNCHANGED <<datagram, last_opt_num, uri>>

Next == Header \/ ReadOption \/ Finish

Spec == Init /\ [][Next]_vars

payload == SubSeq(buf, offset + 1, len)

-----------------------------------------------------------------------------
(* Properties *)

\* Whatever the bytes of the datagram, the parser looks at none behind its
\* end, hands out a payload that lies in it, and keeps the path within its
\* array, the final zero included (the checks of coap_parse).
InBounds ==
    /\ touched <= len
    /\ offset <= len
    /\ Len(uri) < MaxUri

\* The parser comes to an end with every datagram: an option takes at least
\* one byte (the while loop of coap_parse).
EveryOptionAdvances == [][result = "options" /\ result' = "options" => offset' > offset]_vars
=============================================================================
