----------------------------- MODULE CoapFormat -----------------------------
(* What builder and parser of coap_minimal.c have in common. *)
EXTENDS Integers, Sequences

Byte == 0..255

Slash == 47
UriPath == 11       \* the option whose value is a segment of the path
Marker == 255       \* what precedes the payload
=============================================================================
