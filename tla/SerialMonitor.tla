---------------------------- MODULE SerialMonitor ----------------------------
(***************************************************************************)
(* monitor.py: a window in which text for the board is typed, a thread     *)
(* that writes it to the serial port and reads the board's lines, and the  *)
(* pipe that passes the packets among those lines to Wireshark.  The texts *)
(* are numbered as they are typed; packets are all alike.                  *)
(***************************************************************************)
EXTENDS Naturals, Sequences, SequencesExt

CONSTANTS
    MaxTexts,       \* bound on the texts typed
    MaxPackets,     \* bound on the packets received
    MaxReaders,     \* bound on the times that Wireshark is started
    MaxUnflushed    \* packets for which the writer of the pipe has a buffer

VARIABLES
    window,         \* serialConsoleReading: 1 until the window is closed
    thread,         \* what the serial thread does next, see Steps
    buffer,         \* serialOutputBuffer, 0 for the empty string, or Unset
    taken,          \* serialString, the text the thread is about to write
    typed,          \* how many texts were typed
    written,        \* the texts written to the port
    reader,         \* the Wireshark that has the pipe open for reading, or 0
    readers,        \* how often one was started
    fifo,           \* the reader for which outputFifo was opened, or 0
    header,         \* requiresPCAPHeader
    unflushed,      \* what the writer of the pipe could not flush yet
    packets,        \* packets received
    pipe            \* what each reader has been given

serial == <<window, thread, buffer, taken, typed, written>>
capture == <<reader, readers, fifo, header, unflushed, packets, pipe>>
vars == <<serial, capture>>

Steps == {"test", "take", "clear", "write", "read", "ended"}
Unset == MaxTexts + 1

TypeOK ==
    /\ window \in BOOLEAN /\ thread \in Steps
    /\ buffer \in 0..Unset /\ taken \in 0..MaxTexts
    /\ typed \in 0..MaxTexts /\ written \in Seq(1..MaxTexts)
    /\ {reader, readers, fifo} \subseteq 0..MaxReaders
    /\ header \in BOOLEAN /\ packets \in 0..MaxPackets
    /\ unflushed \in Seq({"packet"}) /\ Len(unflushed) <= MaxUnflushed
    /\ pipe \in [1..MaxReaders -> Seq({"header", "packet"})]

\* The thread is started before serialOutputBuffer is assigned.
Init ==
    /\ window = TRUE /\ thread = "test" /\ buffer = Unset
    /\ taken = 0 /\ typed = 0 /\ written = <<>>
    /\ reader = 0 /\ readers = 0 /\ fifo = 0 /\ header = TRUE
    /\ unflushed = <<>> /\ packets = 0
    /\ pipe = [r \in 1..MaxReaders |-> <<>>]

-----------------------------------------------------------------------------
(* The window *)

\* The end of the constructor.
Assign ==
    /\ buffer = Unset
    /\ buffer' = 0
    /\ UNCHANGED <<window, thread, taken, typed, written, capture>>

\* sendSerial: a text that is still waiting is replaced.
Type ==
    /\ window /\ buffer # Unset
    /\ typed < MaxTexts
    /\ typed' = typed + 1
    /\ buffer' = typed'
    /\ UNCHANGED <<window, thread, taken, written, capture>>

\* exit
Close ==
    /\ window /\ buffer # Unset
    /\ window' = FALSE
    /\ UNCHANGED <<thread, buffer, taken, typed, written, capture>>

-----------------------------------------------------------------------------
(* The thread, readSerial *)

\* Mutant of Reading: the loop has no end.
ReadingAlways == TRUE

Reading == window

\* The loop condition, and whether there is text.  Without the attribute the
\* exception ends the thread.
Test ==
    /\ thread = "test"
    /\ thread' = CASE ~Reading \/ buffer = Unset -> "ended"
                   [] Reading /\ buffer = 0 -> "read"
                   [] OTHER -> "take"
    /\ UNCHANGED <<window, buffer, taken, typed, written, capture>>

Take ==
    /\ thread = "take"
    /\ taken' = buffer
    /\ thread' = "clear"
    /\ UNCHANGED <<window, buffer, typed, written, capture>>

\* Mutant of Cleared: the text stays in the buffer.
ClearedNot(text) == text

\* Whatever is in the buffer by now is cleared.
Cleared(text) == 0

Clear ==
    /\ thread = "clear"
    /\ buffer' = Cleared(buffer)
    /\ thread' = "write"
    /\ UNCHANGED <<window, taken, typed, written, capture>>

\* serial.SerialException, when the device is gone: behind a message box the
\* process ends, and its window with it.
DeviceLost == thread' = "ended" /\ window' = FALSE

Write ==
    /\ thread = "write"
    /\ \/ written' = Append(written, taken) /\ thread' = "read" /\ UNCHANGED window
       \/ UNCHANGED written /\ DeviceLost
    /\ UNCHANGED <<buffer, taken, typed, capture>>

-----------------------------------------------------------------------------
(* Packets, handleReceivedFrame *)

\* The pipe that is written to, or 0: one that is open stays open, another
\* can be opened only while somebody reads.
Opened == IF fifo # 0 THEN fifo ELSE reader

\* Mutant of HeaderAfterBreak: the next pipe is not given a header.
HeaderAfterBreakLost == FALSE

\* requiresPCAPHeader after the reader is gone.
HeaderAfterBreak == TRUE

\* The reader is gone: the writer is given up with what it had not flushed.
Broken == header' = HeaderAfterBreak /\ fifo' = 0 /\ unflushed' = <<>> /\ UNCHANGED pipe

\* The reader gets what the writer has.  A pipe that was given something
\* before can be full, which is ignored (EAGAIN): the rest stays with the
\* writer as far as its buffer has room, and goes out with the next packet.
Flush(records) ==
    /\ header' = FALSE /\ fifo' = Opened
    /\ \E n \in 0..Len(records) :
          /\ header => n = Len(records)
          /\ pipe' = [pipe EXCEPT ![reader] = @ \o SubSeq(records, 1, n)]
          /\ LET rest == SubSeq(records, n + 1, Len(records))
             IN  unflushed' = IF Len(rest) <= MaxUnflushed THEN rest ELSE Front(rest)

\* A packet is written behind the header, if the pipe still needs one.  Who
\* reads is decided when the writer flushes, so that opening, writing and
\* flushing are one step: the reader that is there by now gets it all, or the
\* pipe turns out to be broken.
Packet ==
    IF Opened = 0
    THEN header' = TRUE /\ fifo' = 0 /\ UNCHANGED <<unflushed, pipe>>
    ELSE IF reader = 0 THEN Broken
    ELSE Flush(IF header THEN <<"header", "packet">> ELSE unflushed \o <<"packet">>)

\* readline returns: a packet, or a line to show, or nothing within a second.
\* A line for a window that is gone, or a lost device, ends the thread.
Read ==
    /\ thread = "read"
    /\ \/ /\ packets < MaxPackets /\ packets' = packets + 1 /\ Packet
          /\ thread' = "test" /\ UNCHANGED <<window, reader, readers>>
       \/ thread' \in {"test"} \cup (IF window THEN {} ELSE {"ended"}) /\ UNCHANGED <<window, capture>>
       \/ DeviceLost /\ UNCHANGED capture
    /\ UNCHANGED <<buffer, taken, typed, written>>

\* Wireshark starts or stops reading.
Start ==
    /\ reader = 0 /\ readers < MaxReaders
    /\ reader' = readers + 1 /\ readers' = reader'
    /\ UNCHANGED <<serial, fifo, header, unflushed, packets, pipe>>

Stop ==
    /\ reader # 0 /\ reader' = 0
    /\ UNCHANGED <<serial, readers, fifo, header, unflushed, packets, pipe>>

Thread == Test \/ Take \/ Clear \/ Write \/ Read

Next == Assign \/ Type \/ Close \/ Thread \/ Start \/ Stop

Spec == Init /\ [][Next]_vars /\ WF_vars(Assign) /\ WF_vars(Thread)

-----------------------------------------------------------------------------
(* Properties *)

\* Texts reach the board in the order in which they were typed and none of
\* them twice, though some may be lost: the window and the thread share the
\* buffer without a lock (sendSerial, readSerial).
WrittenInOrder ==
    /\ \A i, j \in DOMAIN written : i < j => written[i] < written[j]
    /\ \A i \in DOMAIN written : written[i] <= typed

\* Every capture has one header at most, before its packets, and the reader
\* for which the pipe was opened has one.  A reader that took over a pipe
\* still open from the reader before has none (handleReceivedFrame).
CaptureIsReadable ==
    /\ \A r \in 1..MaxReaders : \A i \in DOMAIN pipe[r] : pipe[r][i] = "header" => i = 1
    /\ fifo # 0 => pipe[fifo] # <<>> /\ pipe[fifo][1] = "header"

\* The thread ends when the window is closed or the process ends.
ThreadEnds == ~window ~> thread = "ended"
=============================================================================
