----------------------------- MODULE HostPrograms -----------------------------
(***************************************************************************)
(* The programs on the PC.  The serial bridge and the dashboard meet in    *)
(* the Splunk index: what the one posts, the other's searches find.  The   *)
(* discovery servers and the serial monitor have nothing in common with    *)
(* them or with each other, so a behaviour is one of the path through      *)
(* Splunk, or of the discovery servers, or of the monitor, while the rest  *)
(* stays as it begins.  A behaviour of the bridge alone reads more lines   *)
(* than one with a page.                                                   *)
(***************************************************************************)
EXTENDS Naturals, Sequences, FiniteSets

CONSTANTS MaxLines, BatchSize,                            \* of SerialBridge
          MaxShown,       \* bound on the lines read while there is a page
          Slots, Searches, MaxTroubles,                   \* of Dashboard
          Servers, MaxRequests, MaxAdverts, MaxQueue,      \* of DiscoveryServer
          MaxTexts, MaxPackets, MaxReaders, MaxUnflushed  \* of SerialMonitor

ASSUME HostAssumption ==
    /\ {MaxLines, MaxRequests, MaxTexts, MaxReaders, MaxUnflushed} \subseteq Nat
    /\ BatchSize \in Nat \ {0} /\ Searches \in Nat
    /\ IsFiniteSet(Servers)

VARIABLES
    program,    \* "bridge", "path", "discovery" or "monitor"
    lines, batch, index, bridge,
    splunk, backend, troubles, requests, overview,
    running, proactive, asked, replies, adverts, inbox,
    window, thread, buffer, taken, typed, written,
    reader, readers, fifo, header, unflushed, packets, pipe

bridgeVars == <<lines, batch, bridge>>
dashboardVars == <<splunk, backend, troubles, requests, overview>>
pathVars == <<bridgeVars, index, dashboardVars>>
discoveryVars == <<running, proactive, asked, replies, adverts, inbox>>
monitorVars == <<window, thread, buffer, taken, typed, written,
                 reader, readers, fifo, header, unflushed, packets, pipe>>
vars == <<program, pathVars, discoveryVars, monitorVars>>

Bridge == INSTANCE SerialBridge
Page == INSTANCE Dashboard
Discovery == INSTANCE DiscoveryServer
Monitor == INSTANCE SerialMonitor

Init ==
    /\ program \in {"bridge", "path", "discovery", "monitor"}
    /\ Bridge!Init /\ Page!Init /\ Discovery!Init /\ Monitor!Init
    /\ program # "path" => splunk
    /\ program # "discovery" => proactive = {}

\* Splunk takes a batch only while it is up.
BridgeStep ==
    /\ Bridge!Next
    /\ index' # index => splunk
    /\ program = "path" => Len(lines') <= MaxShown
    /\ UNCHANGED dashboardVars

PageStep == program = "path" /\ Page!Next /\ UNCHANGED bridgeVars

PathStep ==
    /\ program \in {"bridge", "path"}
    /\ BridgeStep \/ PageStep
    /\ UNCHANGED <<program, discoveryVars, monitorVars>>
DiscoveryStep == program = "discovery" /\ Discovery!Next /\ UNCHANGED <<program, pathVars, monitorVars>>
MonitorStep == program = "monitor" /\ Monitor!Next /\ UNCHANGED <<program, pathVars, discoveryVars>>

Next == PathStep \/ DiscoveryStep \/ MonitorStep

\* The timer of the page, every request, every server and the thread of the
\* monitor go on; nothing makes lines arrive, boards ask or people type.
Spec ==
    /\ Init /\ [][Next]_vars
    /\ WF_vars(PathStep /\ \E r \in Slots : Page!Load(r))
    /\ \A r \in Slots : WF_vars(PathStep /\ Page!Request(r))
    /\ \A s \in Servers : WF_vars(DiscoveryStep /\ Discovery!Receive(s))
    /\ WF_vars(MonitorStep /\ (Monitor!Assign \/ Monitor!Thread))

-----------------------------------------------------------------------------
(* Properties: those of the programs *)

IndexedInOrder == Bridge!IndexedInOrder
PartsAreOrdered == Page!PartsAreOrdered
NoEcho == Discovery!NoEcho
FallsSilent == Discovery!FallsSilent
WrittenInOrder == Monitor!WrittenInOrder
CaptureIsReadable == Monitor!CaptureIsReadable
ThreadEnds == Monitor!ThreadEnds

\* When the bridge has come to its end and Splunk and the backend stay up, the
\* page shows all that was indexed in the end and goes on showing it, however
\* the answers of overlapping polls arrive (load in App.jsx).
CatchesUp ==
    <>[](program = "path" /\ bridge # "reading" /\ splunk /\ backend) => <>[]Page!UpToDate
=============================================================================
