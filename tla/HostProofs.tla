------------------------------ MODULE HostProofs ------------------------------
(***************************************************************************)
(* Proofs about HostPrograms: the invariants of the programs on the PC,    *)
(* for any number of lines, requests, servers, texts and readers.          *)
(***************************************************************************)
EXTENDS HostPrograms, SequenceTheorems, FiniteSetTheorems, TLAPS

(***************************************************************************)
(* What a step does to the state of one program.                           *)
(***************************************************************************)
LEMMA MonitorMoves == [Next]_vars => [Monitor!Next]_monitorVars
BY DEF Next, vars, PathStep, DiscoveryStep, MonitorStep

LEMMA DiscoveryMoves == [Next]_vars => [Discovery!Next]_discoveryVars
BY DEF Next, vars, PathStep, DiscoveryStep, MonitorStep

LEMMA BridgeMoves == [Next]_vars => [Bridge!Next]_<<lines, batch, index, bridge>>
<1>1. PageStep => UNCHANGED <<lines, batch, index, bridge>>
  BY DEF PageStep, bridgeVars, Page!Next, Page!SplunkChanges, Page!BackendChanges, Page!Load, Page!Request,
         Page!Status, Page!Search, Page!Show, Page!ShowOffline
<1> QED
  BY <1>1 DEF Next, vars, PathStep, DiscoveryStep, MonitorStep, BridgeStep, pathVars, bridgeVars

-----------------------------------------------------------------------------
(* The serial bridge *)

\* The numbers in s are those of events among the lines, in their order.
InOrder(s, read) ==
    /\ \A i, j \in DOMAIN s : i < j => s[i] < s[j]
    /\ \A i \in DOMAIN s : s[i] \in DOMAIN read /\ read[s[i]] = "event"

\* Every event among the lines is in s.
Complete(s, read) ==
    \A n \in DOMAIN read : read[n] = "event" => \E i \in DOMAIN s : s[i] = n

(***************************************************************************)
(* While the bridge reads, the events indexed and those of the batch after *)
(* them are all the events there were.                                     *)
(***************************************************************************)
BridgeInv ==
    /\ lines \in Seq(Bridge!Kinds) /\ index \in Seq(Nat)
    /\ batch \in [size : Nat, events : Seq(Nat)]
    /\ bridge \in {"reading", "failed", "ended"}
    /\ bridge = "reading" =>
          /\ InOrder(index \o batch.events, lines) /\ Complete(index \o batch.events, lines)
          /\ Len(batch.events) <= batch.size /\ batch.size < BatchSize
    /\ bridge = "failed" =>
          InOrder(index, lines) /\ \A i \in DOMAIN index, n \in Bridge!Missing : index[i] < n
    /\ bridge = "ended" => InOrder(index, lines) /\ Complete(index, lines)

LEMMA BridgeInit == Bridge!Init => BridgeInv
<1> SUFFICES ASSUME Bridge!Init PROVE BridgeInv
  OBVIOUS
<1>1. lines = <<>> /\ index = <<>> /\ bridge = "reading" /\ batch = [size |-> 0, events |-> <<>>]
  BY DEF Bridge!Init, Bridge!Empty
<1>2. index \o batch.events = <<>>
  BY <1>1
<1> QED
  BY <1>1, <1>2, HostAssumption DEF BridgeInv, InOrder, Complete

\* The start of a sequence in order is in order, and all of it before the rest.
LEMMA Starts ==
  ASSUME NEW s \in Seq(Nat), NEW t \in Seq(Nat), NEW read, InOrder(s \o t, read)
  PROVE  InOrder(s, read) /\ \A i \in DOMAIN s, j \in DOMAIN t : s[i] < t[j]
<1>1. /\ DOMAIN s = 1..Len(s) /\ DOMAIN t = 1..Len(t)
      /\ DOMAIN (s \o t) = 1..(Len(s) + Len(t))
      /\ Len(s) \in Nat /\ Len(t) \in Nat
  OBVIOUS
<1>2. \A i \in DOMAIN s : (s \o t)[i] = s[i] /\ i \in DOMAIN (s \o t)
  BY <1>1
<1>3. \A j \in DOMAIN t : (s \o t)[Len(s) + j] = t[j] /\ Len(s) + j \in DOMAIN (s \o t)
  BY <1>1
<1>4. ASSUME NEW i \in DOMAIN s, NEW j \in DOMAIN t PROVE s[i] < t[j]
  <2>1. i < Len(s) + j
    BY <1>1
  <2> QED
    BY <1>2, <1>3, <2>1 DEF InOrder
<1> QED
  BY <1>1, <1>2, <1>4 DEF InOrder

\* An event that is not in the start of a complete sequence is in its rest.
LEMMA Rest ==
  ASSUME NEW s \in Seq(Nat), NEW t \in Seq(Nat), NEW read, Complete(s \o t, read),
         NEW n \in DOMAIN read, read[n] = "event", \A i \in DOMAIN s : s[i] # n
  PROVE  \E j \in DOMAIN t : t[j] = n
<1>1. PICK k \in DOMAIN (s \o t) : (s \o t)[k] = n
  BY DEF Complete
<1>2. /\ DOMAIN s = 1..Len(s) /\ DOMAIN t = 1..Len(t)
      /\ DOMAIN (s \o t) = 1..(Len(s) + Len(t))
      /\ Len(s) \in Nat /\ Len(t) \in Nat
  OBVIOUS
<1>3. k > Len(s)
  BY <1>1, <1>2
<1>4. t[k - Len(s)] = n /\ k - Len(s) \in DOMAIN t
  BY <1>1, <1>2, <1>3
<1> QED
  BY <1>4

\* A batch that is posted is indexed behind what was, or not at all.
LEMMA Posting ==
  ASSUME NEW payload \in Seq(Nat), NEW then \in {"reading", "ended"},
         index \in Seq(Nat), lines' \in Seq(Bridge!Kinds),
         InOrder(index \o payload, lines'), Complete(index \o payload, lines'),
         Bridge!Post(payload, then), batch' = Bridge!Empty
  PROVE  BridgeInv'
<1>1. /\ index \o payload \in Seq(Nat)
      /\ batch' \in [size : Nat, events : Seq(Nat)] /\ batch'.size = 0 /\ batch'.events = <<>>
  BY DEF Bridge!Empty
<1>2. CASE index' = index \o payload
  <2>1. index' \in Seq(Nat) /\ index' \o batch'.events = index'
    BY <1>1, <1>2
  <2>2. InOrder(index', lines') /\ Complete(index', lines')
    BY <1>2
  <2>3. \A n \in Bridge!Missing' : FALSE
    BY <2>2 DEF Bridge!Missing, Complete
  <2>4. bridge' \in {"reading", "failed", "ended"}
    BY DEF Bridge!Post
  <2>5. Len(batch'.events) <= batch'.size /\ batch'.size < BatchSize
    BY <1>1, HostAssumption
  <2> QED
    BY <1>1, <2>1, <2>2, <2>3, <2>4, <2>5 DEF BridgeInv
<1>3. CASE index' = index /\ bridge' = "failed"
  <2>1. InOrder(index, lines') /\ \A i \in DOMAIN index, j \in DOMAIN payload : index[i] < payload[j]
    BY Starts
  <2>2. ASSUME NEW n \in Bridge!Missing' PROVE \E j \in DOMAIN payload : payload[j] = n
    <3>1. n \in DOMAIN lines' /\ lines'[n] = "event" /\ \A i \in DOMAIN index : index[i] # n
      BY <1>3, <2>2 DEF Bridge!Missing
    <3> QED
      BY <3>1, Rest
  <2>3. \A i \in DOMAIN index', n \in Bridge!Missing' : index'[i] < n
    BY <1>3, <2>1, <2>2
  <2> QED
    BY <1>1, <1>3, <2>1, <2>3 DEF BridgeInv
<1> QED
  BY <1>2, <1>3 DEF Bridge!Post

\* A line that is read keeps its batch in order behind the index, and complete.
LEMMA Gathering ==
  ASSUME BridgeInv, bridge = "reading", NEW kind \in Bridge!Kinds, lines' = Append(lines, kind)
  PROVE  /\ lines' \in Seq(Bridge!Kinds)
         /\ Bridge!Gather(kind) \in [size : Nat, events : Seq(Nat)]
         /\ Len(Bridge!Gather(kind).events) <= Bridge!Gather(kind).size
         /\ InOrder(index \o Bridge!Gather(kind).events, lines')
         /\ Complete(index \o Bridge!Gather(kind).events, lines')
<1> DEFINE n == Len(lines) + 1
           all == index \o batch.events
<1>1. /\ lines \in Seq(Bridge!Kinds) /\ index \in Seq(Nat) /\ batch.events \in Seq(Nat)
      /\ batch.size \in Nat /\ Len(batch.events) <= batch.size
      /\ InOrder(all, lines) /\ Complete(all, lines)
  BY DEF BridgeInv
<1>2. /\ lines' \in Seq(Bridge!Kinds) /\ DOMAIN lines' = 1..n /\ n \in Nat
      /\ DOMAIN lines = 1..Len(lines) /\ Len(lines) \in Nat
      /\ lines'[n] = kind /\ \A i \in DOMAIN lines : lines'[i] = lines[i] /\ i \in DOMAIN lines' /\ i < n
  BY <1>1
<1>3. all \in Seq(Nat)
  BY <1>1
<1>4. CASE kind = "event"
  <2>1. Bridge!Gather(kind) = [size |-> batch.size + 1, events |-> Append(batch.events, n)]
    BY <1>4 DEF Bridge!Gather, Bridge!Posted
  <2>2. /\ Append(batch.events, n) \in Seq(Nat)
        /\ Len(Append(batch.events, n)) = Len(batch.events) + 1
        /\ Len(batch.events) \in Nat
    BY <1>1, <1>2
  <2>3. index \o Append(batch.events, n) = Append(all, n)
    <3>1. <<n>> \in Seq(Nat)
      BY <1>2
    <3>2. Append(batch.events, n) = batch.events \o <<n>> /\ Append(all, n) = all \o <<n>>
      BY <1>1, <1>2, <1>3, AppendIsConcat
    <3> QED
      BY <1>1, <3>1, <3>2, ConcatAssociative
  <2> HIDE DEF all
  <2>4. /\ DOMAIN all = 1..Len(all) /\ Len(all) \in Nat
        /\ DOMAIN Append(all, n) = 1..(Len(all) + 1)
        /\ Append(all, n)[Len(all) + 1] = n
        /\ \A i \in DOMAIN all : Append(all, n)[i] = all[i] /\ i \in DOMAIN Append(all, n)
    BY <1>2, <1>3
  <2>5. InOrder(Append(all, n), lines')
    <3>1. \A i \in DOMAIN all : all[i] < n
      BY <1>1, <1>2 DEF InOrder
    <3>2. ASSUME NEW i \in DOMAIN Append(all, n), NEW j \in DOMAIN Append(all, n), i < j
          PROVE  Append(all, n)[i] < Append(all, n)[j]
      <4>1. i \in DOMAIN all
        BY <2>4, <3>2
      <4>2. CASE j \in DOMAIN all
        BY <1>1, <2>4, <3>2, <4>1, <4>2 DEF InOrder
      <4>3. CASE j = Len(all) + 1
        BY <2>4, <3>1, <4>1, <4>3
      <4> QED
        BY <2>4, <4>2, <4>3
    <3>3. ASSUME NEW i \in DOMAIN Append(all, n)
          PROVE  Append(all, n)[i] \in DOMAIN lines' /\ lines'[Append(all, n)[i]] = "event"
      <4>1. CASE i \in DOMAIN all
        BY <1>1, <1>2, <2>4, <4>1 DEF InOrder
      <4>2. CASE i = Len(all) + 1
        BY <1>2, <1>4, <2>4, <4>2
      <4> QED
        BY <2>4, <3>3, <4>1, <4>2
    <3> QED
      BY <3>2, <3>3 DEF InOrder
  <2>6. Complete(Append(all, n), lines')
    <3>1. ASSUME NEW m \in DOMAIN lines', lines'[m] = "event"
          PROVE  \E i \in DOMAIN Append(all, n) : Append(all, n)[i] = m
      <4>1. CASE m \in DOMAIN lines
        BY <1>1, <1>2, <2>4, <3>1, <4>1 DEF Complete
      <4>2. CASE m = n
        <5>1. Len(all) + 1 \in DOMAIN Append(all, n)
          BY <2>4
        <5> QED
          BY <2>4, <4>2, <5>1
      <4> QED
        BY <1>2, <3>1, <4>1, <4>2
    <3> QED
      BY <3>1 DEF Complete
  <2>7. batch.size + 1 \in Nat /\ Len(Append(batch.events, n)) <= batch.size + 1
    BY <1>1, <2>2
  <2>8. /\ Bridge!Gather(kind).size = batch.size + 1
        /\ Bridge!Gather(kind).events = Append(batch.events, n)
        /\ Bridge!Gather(kind) \in [size : Nat, events : Seq(Nat)]
    BY <2>1, <2>2, <2>7
  <2> HIDE DEF n
  <2> QED
    BY <1>2, <2>3, <2>5, <2>6, <2>7, <2>8
<1>5. CASE kind # "event"
  <2>1. /\ Bridge!Gather(kind).events = batch.events
        /\ Bridge!Gather(kind).size \in {batch.size, batch.size + 1}
        /\ Bridge!Gather(kind) \in [size : Nat, events : Seq(Nat)]
    BY <1>1, <1>5 DEF Bridge!Gather, Bridge!Posted
  <2> HIDE DEF all
  <2>2. InOrder(all, lines') /\ Complete(all, lines')
    BY <1>1, <1>2, <1>5 DEF InOrder, Complete
  <2> USE DEF all
  <2>3. Len(batch.events) \in Nat
    BY <1>1
  <2> QED
    BY <1>1, <1>2, <2>1, <2>2, <2>3
<1> QED
  BY <1>4, <1>5

LEMMA BridgeStepInv == BridgeInv /\ [Bridge!Next]_<<lines, batch, index, bridge>> => BridgeInv'
<1> SUFFICES ASSUME BridgeInv, [Bridge!Next]_<<lines, batch, index, bridge>> PROVE BridgeInv'
  OBVIOUS
<1>1. index \in Seq(Nat)
  BY DEF BridgeInv
<1>2. CASE Bridge!ReadLine
  <2>1. PICK kind \in Bridge!Kinds :
          /\ lines' = Append(lines, kind) /\ bridge = "reading"
          /\ IF Bridge!Full(Bridge!Gather(kind))
             THEN Bridge!Post(Bridge!Gather(kind).events, "reading") /\ batch' = Bridge!Empty
             ELSE batch' = Bridge!Gather(kind) /\ UNCHANGED <<index, bridge>>
    BY <1>2 DEF Bridge!ReadLine
  <2> DEFINE gathered == Bridge!Gather(kind)
  <2>2. /\ lines' \in Seq(Bridge!Kinds)
        /\ gathered \in [size : Nat, events : Seq(Nat)]
        /\ Len(gathered.events) <= gathered.size
        /\ InOrder(index \o gathered.events, lines')
        /\ Complete(index \o gathered.events, lines')
    BY <2>1, Gathering
  <2>3. CASE Bridge!Full(gathered)
    <3>1. gathered.events \in Seq(Nat)
      BY <2>2
    <3> QED
      BY <1>1, <2>1, <2>2, <2>3, <3>1, Posting
  <2>4. CASE ~Bridge!Full(gathered)
    <3>1. batch' = gathered /\ index' = index /\ bridge' = "reading"
      BY <2>1, <2>4
    <3>2. gathered.size < BatchSize
      BY <2>2, <2>4, HostAssumption DEF Bridge!Full
    <3> HIDE DEF gathered
    <3> QED
      BY <1>1, <2>2, <3>1, <3>2 DEF BridgeInv
  <2> QED
    BY <2>3, <2>4
<1>3. CASE Bridge!EndOfInput
  <2>1. /\ bridge = "reading" /\ Bridge!Post(batch.events, "ended") /\ batch' = Bridge!Empty
        /\ lines' = lines
    BY <1>3 DEF Bridge!EndOfInput
  <2>2. /\ batch.events \in Seq(Nat) /\ lines \in Seq(Bridge!Kinds)
        /\ InOrder(index \o batch.events, lines) /\ Complete(index \o batch.events, lines)
    BY <2>1 DEF BridgeInv
  <2> QED
    BY <1>1, <2>1, <2>2, Posting
<1>4. CASE UNCHANGED <<lines, batch, index, bridge>>
  BY <1>4 DEF BridgeInv, Bridge!Missing
<1> QED
  BY <1>2, <1>3, <1>4 DEF Bridge!Next

\* The cardinality that the bridge's module means is this module's.
LEMMA SameCardinality == \A S : Bridge!Cardinality(S) = Cardinality(S)
BY DEF Bridge!Cardinality, Cardinality

\* What is missing while the bridge reads is in the batch, which is not full.
LEMMA MissingIsFew ==
  ASSUME BridgeInv, bridge = "reading"
  PROVE  Cardinality(Bridge!Missing) < BatchSize
<1> DEFINE waiting == batch.events
<1>1. /\ index \in Seq(Nat) /\ waiting \in Seq(Nat) /\ Complete(index \o waiting, lines)
      /\ Len(waiting) <= batch.size /\ batch.size < BatchSize /\ batch.size \in Nat
  BY DEF BridgeInv
<1> HIDE DEF waiting
<1>2. ASSUME NEW n \in Bridge!Missing PROVE \E j \in 1..Len(waiting) : waiting[j] = n
  <2>1. n \in DOMAIN lines /\ lines[n] = "event" /\ \A i \in DOMAIN index : index[i] # n
    BY <1>2 DEF Bridge!Missing
  <2>2. \E j \in DOMAIN waiting : waiting[j] = n
    BY <1>1, <2>1, Rest
  <2> QED
    BY <1>1, <2>2
<1> DEFINE held == {waiting[j] : j \in 1..Len(waiting)}
           f == [j \in 1..Len(waiting) |-> waiting[j]]
<1>3. f \in Surjection(1..Len(waiting), held)
  BY DEF Surjection
<1>4. IsFiniteSet(1..Len(waiting)) /\ Cardinality(1..Len(waiting)) = Len(waiting)
  <2>1. Len(waiting) \in Nat /\ 1 \in Int /\ Len(waiting) \in Int
    BY <1>1
  <2>2. /\ IsFiniteSet(1..Len(waiting))
        /\ Cardinality(1..Len(waiting)) = IF 1 > Len(waiting) THEN 0 ELSE Len(waiting) - 1 + 1
    BY <2>1, FS_Interval, Zenon
  <2> QED
    BY <2>1, <2>2
<1>5. IsFiniteSet(held) /\ Cardinality(held) <= Cardinality(1..Len(waiting))
  BY <1>3, <1>4, FS_Surjection
<1>6. Bridge!Missing \subseteq held
  BY <1>2
<1>7. Cardinality(Bridge!Missing) <= Cardinality(held) /\ Cardinality(Bridge!Missing) \in Nat
  BY <1>5, <1>6, FS_Subset, FS_CardinalityType
<1>8. Cardinality(held) \in Nat /\ Len(waiting) \in Nat
  BY <1>1, <1>5, FS_CardinalityType
<1>9. BatchSize \in Nat
  BY HostAssumption
<1> HIDE DEF held
<1> QED
  BY <1>1, <1>4, <1>5, <1>7, <1>8, <1>9

LEMMA BridgeInvSays == BridgeInv => IndexedInOrder
<1> SUFFICES ASSUME BridgeInv PROVE IndexedInOrder
  OBVIOUS
<1>1. CASE bridge = "reading"
  <2>1. /\ index \in Seq(Nat) /\ batch.events \in Seq(Nat)
        /\ InOrder(index \o batch.events, lines) /\ Complete(index \o batch.events, lines)
    BY <1>1 DEF BridgeInv
  <2>2. /\ InOrder(index, lines)
        /\ \A i \in DOMAIN index, j \in DOMAIN batch.events : index[i] < batch.events[j]
    BY <2>1, Starts
  <2>3. ASSUME NEW n \in Bridge!Missing PROVE \E j \in DOMAIN batch.events : batch.events[j] = n
    <3>1. n \in DOMAIN lines /\ lines[n] = "event" /\ \A i \in DOMAIN index : index[i] # n
      BY <2>3 DEF Bridge!Missing
    <3> QED
      BY <2>1, <3>1, Rest
  <2>4. \A i \in DOMAIN index, n \in Bridge!Missing : index[i] < n
    BY <2>2, <2>3
  <2> QED
    BY <1>1, <2>2, <2>4, MissingIsFew, SameCardinality DEF IndexedInOrder, Bridge!IndexedInOrder, InOrder
<1>2. CASE bridge = "failed"
  BY <1>2 DEF BridgeInv, IndexedInOrder, Bridge!IndexedInOrder, InOrder
<1>3. CASE bridge = "ended"
  <2>1. Bridge!Missing = {}
    BY <1>3 DEF BridgeInv, Bridge!Missing, Complete
  <2> QED
    BY <1>3, <2>1 DEF BridgeInv, IndexedInOrder, Bridge!IndexedInOrder, InOrder
<1> QED
  BY <1>1, <1>2, <1>3 DEF BridgeInv

\* However the posts of the bridge end, Splunk has the events of the lines in
\* their order, once each, and lacks only those of the last batch
\* (send_batch, main of serial_to_hec.py).
THEOREM EventsIndexedInOrder == Spec => []IndexedInOrder
<1>1. Init => BridgeInv
  BY BridgeInit DEF Init
<1>2. BridgeInv /\ [Next]_vars => BridgeInv'
  BY BridgeMoves, BridgeStepInv
<1> QED
  BY <1>1, <1>2, BridgeInvSays, PTL DEF Spec

-----------------------------------------------------------------------------
(* The dashboard *)

\* Answers of searches made one after the other, the last when n were indexed.
Ordered(answers, n) ==
    /\ answers \in Seq({Page!Failed} \cup Nat)
    /\ \A i \in DOMAIN answers :
          /\ answers[i] <= n
          /\ \A j \in 1..i : answers[i] # Page!Failed => answers[j] <= answers[i]

(***************************************************************************)
(* The answers of every overview, the one that is shown and those in the   *)
(* making, are ordered.                                                    *)
(***************************************************************************)
PageInv ==
    /\ requests = [r \in Slots |-> requests[r]]
    /\ \A r \in Slots : requests[r].at = "searching" =>
          /\ requests[r] = [at |-> "searching", ok |-> requests[r].ok, answers |-> requests[r].answers]
          /\ Ordered(requests[r].answers, Len(index))
    /\ overview # Page!Nothing => Ordered(overview.answers, Len(index))

LEMMA PageInit == Page!Init => PageInv
BY DEF Page!Init, PageInv, Page!Free

LEMMA OrderedLater ==
  ASSUME NEW answers, NEW m \in Nat, NEW n \in Nat, m <= n, Ordered(answers, m)
  PROVE  Ordered(answers, n)
BY DEF Ordered, Page!Failed

LEMMA OrderedAppend ==
  ASSUME NEW answers, NEW n \in Nat, Ordered(answers, n), NEW answer \in {Page!Failed, n}
  PROVE  Ordered(Append(answers, answer), n)
<1> DEFINE all == Append(answers, answer)
<1>1. /\ answers \in Seq({Page!Failed} \cup Nat) /\ answer \in {Page!Failed} \cup Nat
      /\ answer \in Int /\ answer <= n
  BY DEF Ordered, Page!Failed
<1>2. /\ all \in Seq({Page!Failed} \cup Nat)
      /\ DOMAIN answers = 1..Len(answers) /\ DOMAIN all = 1..(Len(answers) + 1)
      /\ Len(answers) \in Nat
      /\ all[Len(answers) + 1] = answer
      /\ \A i \in DOMAIN answers : all[i] = answers[i]
  BY <1>1
<1> HIDE DEF all
<1>3. \A i \in DOMAIN answers : answers[i] \in Int /\ answers[i] <= n
  BY <1>1, <1>2 DEF Ordered, Page!Failed
<1>4. ASSUME NEW i \in DOMAIN all
      PROVE  all[i] <= n /\ \A j \in 1..i : all[i] # Page!Failed => all[j] <= all[i]
  <2>1. CASE i \in DOMAIN answers
    <3>1. \A j \in 1..i : j \in DOMAIN answers
      BY <1>2, <2>1
    <3> QED
      BY <1>2, <2>1, <3>1 DEF Ordered
  <2>2. CASE i = Len(answers) + 1
    <3>1. all[i] = answer
      BY <1>2, <2>2
    <3>2. ASSUME NEW j \in 1..i, answer = n PROVE all[j] <= answer
      <4>1. j \in DOMAIN answers \/ j = Len(answers) + 1
        BY <1>2, <2>2
      <4> QED
        BY <1>1, <1>2, <1>3, <3>2, <4>1
    <3> QED
      BY <1>1, <3>1, <3>2
  <2> QED
    BY <1>2, <2>1, <2>2
<1> QED
  BY <1>2, <1>4 DEF Ordered, all

LEMMA IndexGrows ==
  ASSUME BridgeInv, [Bridge!Next]_<<lines, batch, index, bridge>>
  PROVE  Len(index) \in Nat /\ Len(index') \in Nat /\ Len(index) <= Len(index')
<1>1. /\ index \in Seq(Nat) /\ batch \in [size : Nat, events : Seq(Nat)]
  BY DEF BridgeInv
<1>2. ASSUME NEW payload \in Seq(Nat), index' \in {index, index \o payload}
      PROVE  Len(index) \in Nat /\ Len(index') \in Nat /\ Len(index) <= Len(index')
  BY <1>1, <1>2
<1>3. CASE Bridge!ReadLine
  <2>1. PICK kind \in Bridge!Kinds :
          /\ bridge = "reading" /\ lines' = Append(lines, kind)
          /\ index' \in {index, index \o Bridge!Gather(kind).events}
    BY <1>3 DEF Bridge!ReadLine, Bridge!Post
  <2>2. Bridge!Gather(kind) \in [size : Nat, events : Seq(Nat)]
    BY <2>1, Gathering
  <2> QED
    BY <1>2, <2>1, <2>2
<1>4. CASE Bridge!EndOfInput
  BY <1>1, <1>2, <1>4 DEF Bridge!EndOfInput, Bridge!Post
<1>5. CASE UNCHANGED <<lines, batch, index, bridge>>
  BY <1>1, <1>5
<1> QED
  BY <1>3, <1>4, <1>5 DEF Bridge!Next

\* A step of the backend or the page.
LEMMA PageStepInv ==
  ASSUME PageInv, Len(index) \in Nat, Page!Next PROVE PageInv'
<1>1. index' = index
  BY DEF Page!Next, Page!SplunkChanges, Page!BackendChanges, Page!Load, Page!Request, Page!Status, Page!Search,
         Page!Show, Page!ShowOffline
<1>2. CASE Page!SplunkChanges
  BY <1>1, <1>2 DEF Page!SplunkChanges, PageInv
<1>8. CASE Page!BackendChanges
  BY <1>1, <1>8 DEF Page!BackendChanges, PageInv, Page!Lost
<1>3. ASSUME NEW r \in Slots, Page!Load(r) PROVE PageInv'
  BY <1>1, <1>3 DEF Page!Load, PageInv
<1>4. ASSUME NEW r \in Slots, Page!Status(r) PROVE PageInv'
  <2>1. Ordered(<<>>, Len(index))
    BY DEF Ordered
  <2>2. PICK ok \in BOOLEAN :
          requests' = [requests EXCEPT ![r] = [at |-> "searching", ok |-> ok, answers |-> <<>>]]
    BY <1>4 DEF Page!Status
  <2>3. overview' = overview
    BY <1>4 DEF Page!Status
  <2> QED
    BY <1>1, <2>1, <2>2, <2>3 DEF PageInv
<1>5. ASSUME NEW r \in Slots, Page!Search(r) PROVE PageInv'
  <2> DEFINE answer(found) == IF found THEN Len(index) ELSE Page!Failed
  <2>9. PICK found \in BOOLEAN :
          requests' = [requests EXCEPT ![r].answers = Page!Noted(@, answer(found))]
    BY <1>5 DEF Page!Search
  <2> DEFINE answers == Append(requests[r].answers, answer(found))
             searching == [at |-> "searching", ok |-> requests[r].ok, answers |-> answers]
  <2>1. /\ requests[r].at = "searching" /\ overview' = overview
        /\ requests[r] = [at |-> "searching", ok |-> requests[r].ok, answers |-> requests[r].answers]
        /\ Ordered(requests[r].answers, Len(index))
    BY <1>5 DEF Page!Search, PageInv
  <2>2. requests' = [requests EXCEPT ![r] = [requests[r] EXCEPT !.answers = answers]]
    BY <2>9 DEF Page!Noted
  <2>3. Ordered(answers, Len(index))
    BY <2>1, OrderedAppend
  <2> HIDE DEF answers
  <2>4. [requests[r] EXCEPT !.answers = answers] = searching
    BY <2>1
  <2>5. requests' = [requests EXCEPT ![r] = searching]
    BY <2>2, <2>4
  <2>6. searching.at = "searching" /\ searching.ok = requests[r].ok /\ searching.answers = answers
    OBVIOUS
  <2> HIDE DEF searching
  <2>7. /\ requests' = [s \in Slots |-> requests'[s]]
        /\ requests'[r] = searching /\ \A s \in Slots : s # r => requests'[s] = requests[s]
    BY <2>5 DEF PageInv
  <2>8. searching = [at |-> "searching", ok |-> searching.ok, answers |-> searching.answers]
    BY DEF searching
  <2> QED
    BY <1>1, <2>1, <2>3, <2>6, <2>7, <2>8 DEF PageInv
<1>6. ASSUME NEW r \in Slots, Page!Show(r) PROVE PageInv'
  <2>1. /\ overview'.answers = requests[r].answers /\ requests[r].at = "searching"
        /\ requests' = [requests EXCEPT ![r] = Page!Free]
    BY <1>6 DEF Page!Show
  <2> QED
    BY <1>1, <2>1 DEF PageInv, Page!Free
<1>7. ASSUME NEW r \in Slots, Page!ShowOffline(r) PROVE PageInv'
  BY <1>1, <1>7 DEF Page!ShowOffline, PageInv, Page!Free
<1> QED
  BY <1>2, <1>3, <1>4, <1>5, <1>6, <1>7, <1>8 DEF Page!Next, Page!Request

LEMMA PageStays ==
  ASSUME PageInv, UNCHANGED <<requests, overview>>,
         Len(index) \in Nat, Len(index') \in Nat, Len(index) <= Len(index')
  PROVE  PageInv'
BY OrderedLater DEF PageInv

LEMMA PageMoves ==
  [Next]_vars =>
     \/ Page!Next
     \/ UNCHANGED <<requests, overview>>
BY DEF Next, vars, PathStep, DiscoveryStep, MonitorStep, BridgeStep, PageStep, pathVars, dashboardVars

\* Whatever else is asked and indexed meanwhile, no part of an overview has
\* less than a part that was read before it (overview in app.py).
THEOREM OverviewPartsAreOrdered == Spec => []PartsAreOrdered
<1>1. Init => BridgeInv /\ PageInv
  BY BridgeInit, PageInit DEF Init
<1>2. BridgeInv /\ PageInv /\ [Next]_vars => BridgeInv' /\ PageInv'
  <2> SUFFICES ASSUME BridgeInv, PageInv, [Next]_vars PROVE BridgeInv' /\ PageInv'
    OBVIOUS
  <2>1. [Bridge!Next]_<<lines, batch, index, bridge>>
    BY BridgeMoves
  <2>2. BridgeInv' /\ Len(index) \in Nat /\ Len(index') \in Nat /\ Len(index) <= Len(index')
    BY <2>1, BridgeStepInv, IndexGrows
  <2> QED
    BY <2>2, PageMoves, PageStepInv, PageStays
<1>3. PageInv => PartsAreOrdered
  BY DEF PageInv, PartsAreOrdered, Page!PartsAreOrdered, Ordered
<1> QED
  BY <1>1, <1>2, <1>3, PTL DEF Spec

-----------------------------------------------------------------------------
(* The discovery servers *)

\* The requests that wait to be received, by server and place in its queue.
Pending(boxes) ==
    {w \in Servers \X Nat : w[2] \in DOMAIN boxes[w[1]] /\ boxes[w[1]][w[2]] = "request"}

(***************************************************************************)
(* A server owes an answer to each request that waits in its socket, and   *)
(* to nothing else; boards asked for no more.                              *)
(***************************************************************************)
DiscoveryInv ==
    /\ running \subseteq Servers
    /\ asked \in Nat /\ replies \in Nat
    /\ inbox \in [Servers -> Seq({"request", "advert"})]
    /\ IsFiniteSet(Pending(inbox))
    /\ replies + Cardinality(Pending(inbox)) <= Cardinality(Servers) * asked

LEMMA DiscoveryInit == Discovery!Init => DiscoveryInv
<1> SUFFICES ASSUME Discovery!Init PROVE DiscoveryInv
  OBVIOUS
<1>1. /\ running = Servers /\ asked = 0 /\ replies = 0
      /\ inbox \in [Servers -> Seq({"request", "advert"})]
      /\ \A s \in Servers : inbox[s] = <<>>
  BY DEF Discovery!Init
<1>2. Pending(inbox) = {}
  BY <1>1 DEF Pending
<1>3. Cardinality(Servers) \in Nat
  BY HostAssumption, FS_CardinalityType
<1> QED
  BY <1>1, <1>2, <1>3, FS_EmptySet DEF DiscoveryInv

\* An advert that is broadcast leaves the pending requests alone.
LEMMA AdvertsAreNotPending ==
  ASSUME NEW boxes \in [Servers -> Seq({"request", "advert"})], NEW hearers \in SUBSET Servers
  PROVE  /\ Discovery!Broadcast(boxes, "advert", hearers) \in [Servers -> Seq({"request", "advert"})]
         /\ Pending(Discovery!Broadcast(boxes, "advert", hearers)) = Pending(boxes)
<1> DEFINE heard == Discovery!Broadcast(boxes, "advert", hearers)
<1>1. \A s \in Servers : heard[s] = boxes[s] \/ heard[s] = Append(boxes[s], "advert")
  BY DEF Discovery!Broadcast
<1>3. heard = [s \in Servers |-> heard[s]]
  BY DEF Discovery!Broadcast
<1> HIDE DEF heard
<1>2. ASSUME NEW s \in Servers
      PROVE  /\ heard[s] \in Seq({"request", "advert"})
             /\ \A i \in Nat : (i \in DOMAIN heard[s] /\ heard[s][i] = "request")
                                <=> (i \in DOMAIN boxes[s] /\ boxes[s][i] = "request")
  <2>1. boxes[s] \in Seq({"request", "advert"})
    OBVIOUS
  <2>2. CASE heard[s] = boxes[s]
    BY <2>1, <2>2
  <2>3. CASE heard[s] = Append(boxes[s], "advert")
    <3>1. /\ heard[s] \in Seq({"request", "advert"}) /\ Len(heard[s]) = Len(boxes[s]) + 1
          /\ \A i \in 1..Len(boxes[s]) : heard[s][i] = boxes[s][i]
          /\ heard[s][Len(boxes[s]) + 1] = "advert"
      BY <2>1, <2>3, AppendProperties
    <3>2. /\ DOMAIN boxes[s] = 1..Len(boxes[s]) /\ Len(boxes[s]) \in Nat
          /\ DOMAIN heard[s] = 1..(Len(boxes[s]) + 1)
      BY <2>1, <3>1
    <3> QED
      BY <3>1, <3>2
  <2> QED
    BY <1>1, <2>2, <2>3
<1>4. heard \in [Servers -> Seq({"request", "advert"})]
  BY <1>2, <1>3
<1>5. Pending(heard) = Pending(boxes)
  BY <1>2 DEF Pending
<1> QED
  BY <1>4, <1>5 DEF heard

\* A request that is broadcast waits once more in each socket at most.
LEMMA RequestsArePendingOnce ==
  ASSUME NEW boxes \in [Servers -> Seq({"request", "advert"})], NEW hearers \in SUBSET Servers,
         IsFiniteSet(Pending(boxes))
  PROVE  LET heard == Discovery!Broadcast(boxes, "request", hearers)
         IN  /\ heard \in [Servers -> Seq({"request", "advert"})]
             /\ IsFiniteSet(Pending(heard))
             /\ Cardinality(Pending(heard)) <= Cardinality(Pending(boxes)) + Cardinality(Servers)
<1> DEFINE heard == Discovery!Broadcast(boxes, "request", hearers)
           new == {<<s, Len(boxes[s]) + 1>> : s \in Servers}
           f == [s \in Servers |-> <<s, Len(boxes[s]) + 1>>]
<1>1. \A s \in Servers : heard[s] = boxes[s] \/ heard[s] = Append(boxes[s], "request")
  BY DEF Discovery!Broadcast
<1>3. heard = [s \in Servers |-> heard[s]]
  BY DEF Discovery!Broadcast
<1> HIDE DEF heard
<1>2. ASSUME NEW s \in Servers
      PROVE  /\ heard[s] \in Seq({"request", "advert"})
             /\ \A i \in DOMAIN heard[s] :
                   \/ i \in DOMAIN boxes[s] /\ boxes[s][i] = heard[s][i]
                   \/ i = Len(boxes[s]) + 1
  <2>1. boxes[s] \in Seq({"request", "advert"})
    OBVIOUS
  <2>2. CASE heard[s] = boxes[s]
    BY <2>1, <2>2
  <2>3. CASE heard[s] = Append(boxes[s], "request")
    <3>1. /\ heard[s] \in Seq({"request", "advert"}) /\ Len(heard[s]) = Len(boxes[s]) + 1
          /\ \A i \in 1..Len(boxes[s]) : heard[s][i] = boxes[s][i]
          /\ heard[s][Len(boxes[s]) + 1] = "request"
      BY <2>1, <2>3, AppendProperties
    <3>2. /\ DOMAIN boxes[s] = 1..Len(boxes[s]) /\ Len(boxes[s]) \in Nat
          /\ DOMAIN heard[s] = 1..(Len(boxes[s]) + 1)
      BY <2>1, <3>1
    <3> QED
      BY <3>1, <3>2
  <2> QED
    BY <1>1, <2>2, <2>3
<1>4. heard \in [Servers -> Seq({"request", "advert"})]
  BY <1>2, <1>3
<1>5. Pending(heard) \subseteq Pending(boxes) \cup new
  <2> SUFFICES ASSUME NEW w \in Pending(heard) PROVE w \in Pending(boxes) \cup new
    OBVIOUS
  <2>1. /\ w \in Servers \X Nat /\ w = <<w[1], w[2]>> /\ w[1] \in Servers /\ w[2] \in Nat
        /\ w[2] \in DOMAIN heard[w[1]] /\ heard[w[1]][w[2]] = "request"
    BY DEF Pending
  <2>2. CASE w[2] = Len(boxes[w[1]]) + 1
    BY <2>1, <2>2
  <2>3. CASE w[2] \in DOMAIN boxes[w[1]] /\ boxes[w[1]][w[2]] = heard[w[1]][w[2]]
    BY <2>1, <2>3 DEF Pending
  <2> QED
    BY <1>2, <2>1, <2>2, <2>3
<1>6. f \in Surjection(Servers, new)
  BY DEF Surjection
<1>7. IsFiniteSet(new) /\ Cardinality(new) <= Cardinality(Servers)
  BY <1>6, HostAssumption, FS_Surjection
<1> HIDE DEF new
<1>8. /\ IsFiniteSet(Pending(boxes) \cup new)
      /\ Cardinality(Pending(boxes) \cup new) =
            Cardinality(Pending(boxes)) + Cardinality(new) - Cardinality(Pending(boxes) \cap new)
  BY <1>7, FS_Union
<1>9. IsFiniteSet(Pending(heard)) /\ Cardinality(Pending(heard)) <= Cardinality(Pending(boxes) \cup new)
  BY <1>5, <1>8, FS_Subset
<1>10. /\ Cardinality(Pending(boxes) \cap new) \in Nat /\ Cardinality(new) \in Nat
       /\ Cardinality(Pending(boxes)) \in Nat /\ Cardinality(Servers) \in Nat
       /\ Cardinality(Pending(heard)) \in Nat /\ Cardinality(Pending(boxes) \cup new) \in Nat
  <2>1. IsFiniteSet(Pending(boxes) \cap new)
    BY FS_Intersection
  <2> QED
    BY <1>7, <1>8, <1>9, <2>1, HostAssumption, FS_CardinalityType
<1>11. Cardinality(Pending(heard)) <= Cardinality(Pending(boxes)) + Cardinality(Servers)
  BY <1>7, <1>8, <1>9, <1>10
<1> QED
  BY <1>4, <1>9, <1>11 DEF heard

\* What is received no longer waits.
LEMMA ReceivedIsNotPending ==
  ASSUME NEW boxes \in [Servers -> Seq({"request", "advert"})], IsFiniteSet(Pending(boxes)),
         NEW s \in Servers, boxes[s] # <<>>
  PROVE  LET left == [boxes EXCEPT ![s] = Tail(@)]
         IN  /\ left \in [Servers -> Seq({"request", "advert"})]
             /\ IsFiniteSet(Pending(left))
             /\ Cardinality(Pending(left)) <= Cardinality(Pending(boxes))
             /\ Head(boxes[s]) = "request" => Cardinality(Pending(left)) < Cardinality(Pending(boxes))
<1> DEFINE left == [boxes EXCEPT ![s] = Tail(@)]
           rest == Pending(boxes) \ {<<s, 1>>}
           f == [w \in Pending(left) |-> IF w[1] = s THEN <<s, w[2] + 1>> ELSE w]
<1>1. /\ boxes[s] \in Seq({"request", "advert"})
      /\ Tail(boxes[s]) \in Seq({"request", "advert"})
      /\ DOMAIN boxes[s] = 1..Len(boxes[s]) /\ Len(boxes[s]) \in Nat
      /\ DOMAIN Tail(boxes[s]) = 1..(Len(boxes[s]) - 1)
      /\ \A i \in DOMAIN Tail(boxes[s]) : Tail(boxes[s])[i] = boxes[s][i + 1]
      /\ Head(boxes[s]) = boxes[s][1] /\ Len(boxes[s]) > 0
  <2>1. boxes[s] \in Seq({"request", "advert"})
    OBVIOUS
  <2> QED
    BY <2>1
<1>2. /\ left \in [Servers -> Seq({"request", "advert"})]
      /\ left[s] = Tail(boxes[s]) /\ \A t \in Servers : t # s => left[t] = boxes[t]
  BY <1>1
<1>3. ASSUME NEW w \in Pending(left)
      PROVE  /\ w \in Servers \X Nat /\ w = <<w[1], w[2]>> /\ w[1] \in Servers /\ w[2] \in Nat
             /\ f[w] \in rest
  <2>1. /\ w \in Servers \X Nat /\ w = <<w[1], w[2]>> /\ w[1] \in Servers /\ w[2] \in Nat
        /\ w[2] \in DOMAIN left[w[1]] /\ left[w[1]][w[2]] = "request"
    BY <1>3 DEF Pending
  <2>2. CASE w[1] = s
    <3>1. f[w] = <<s, w[2] + 1>>
      BY <1>3, <2>2
    <3>2. w[2] \in 1..(Len(boxes[s]) - 1) /\ boxes[s][w[2] + 1] = "request"
      BY <1>1, <1>2, <2>1, <2>2
    <3>3. w[2] + 1 \in DOMAIN boxes[s] /\ w[2] + 1 \in Nat /\ w[2] + 1 # 1
      BY <1>1, <3>2
    <3>4. <<s, w[2] + 1>> \in Pending(boxes) /\ <<s, w[2] + 1>> # <<s, 1>>
      BY <3>2, <3>3 DEF Pending
    <3> QED
      BY <2>1, <3>1, <3>4
  <2>3. CASE w[1] # s
    BY <1>2, <1>3, <2>1, <2>3 DEF Pending
  <2> QED
    BY <2>1, <2>2, <2>3
<1> HIDE DEF left
<1>4. f \in Injection(Pending(left), rest)
  <2>1. f \in [Pending(left) -> rest]
    BY <1>3
  <2>2. ASSUME NEW v \in Pending(left), NEW w \in Pending(left), f[v] = f[w] PROVE v = w
    <3>1. /\ v = <<v[1], v[2]>> /\ w = <<w[1], w[2]>> /\ v[2] \in Nat /\ w[2] \in Nat
      BY <1>3
    <3>2. CASE v[1] = s /\ w[1] = s
      BY <2>2, <3>1, <3>2
    <3>3. CASE v[1] = s /\ w[1] # s
      BY <2>2, <3>1, <3>3
    <3>4. CASE v[1] # s /\ w[1] = s
      BY <2>2, <3>1, <3>4
    <3>5. CASE v[1] # s /\ w[1] # s
      BY <2>2, <3>5
    <3> QED
      BY <3>2, <3>3, <3>4, <3>5
  <2> HIDE DEF f, rest
  <2>3. \A v, w \in DOMAIN f : f[v] = f[w] => v = w
    BY <2>1, <2>2
  <2> QED
    BY <2>1, <2>3 DEF Injection, IsInjective
<1>5. /\ IsFiniteSet(rest)
      /\ Cardinality(rest) =
            IF <<s, 1>> \in Pending(boxes) THEN Cardinality(Pending(boxes)) - 1
                                           ELSE Cardinality(Pending(boxes))
  BY FS_RemoveElement, Zenon
<1>6. IsFiniteSet(Pending(left)) /\ Cardinality(Pending(left)) <= Cardinality(rest)
  BY <1>4, <1>5, FS_Injection
<1>7. Head(boxes[s]) = "request" => <<s, 1>> \in Pending(boxes)
  BY <1>1 DEF Pending
<1>8. /\ Cardinality(Pending(left)) \in Nat /\ Cardinality(rest) \in Nat
      /\ Cardinality(Pending(boxes)) \in Nat
  BY <1>5, <1>6, FS_CardinalityType
<1> HIDE DEF rest
<1> QED
  BY <1>2, <1>5, <1>6, <1>7, <1>8 DEF left

\* What waits for a server that ends is lost.
LEMMA LostIsNotPending ==
  ASSUME NEW boxes \in [Servers -> Seq({"request", "advert"})], IsFiniteSet(Pending(boxes)),
         NEW s \in Servers
  PROVE  LET left == [boxes EXCEPT ![s] = <<>>]
         IN  /\ left \in [Servers -> Seq({"request", "advert"})]
             /\ IsFiniteSet(Pending(left))
             /\ Cardinality(Pending(left)) <= Cardinality(Pending(boxes))
<1> DEFINE left == [boxes EXCEPT ![s] = <<>>]
<1>1. /\ left \in [Servers -> Seq({"request", "advert"})]
      /\ left[s] = <<>> /\ \A t \in Servers : t # s => left[t] = boxes[t]
  OBVIOUS
<1> HIDE DEF left
<1>2. Pending(left) \subseteq Pending(boxes)
  <2> SUFFICES ASSUME NEW w \in Pending(left) PROVE w \in Pending(boxes)
    OBVIOUS
  <2>1. /\ w \in Servers \X Nat /\ w[1] \in Servers
        /\ w[2] \in DOMAIN left[w[1]] /\ left[w[1]][w[2]] = "request"
    BY DEF Pending
  <2>2. w[1] # s
    BY <1>1, <2>1
  <2> QED
    BY <1>1, <2>1, <2>2 DEF Pending
<1> QED
  BY <1>1, <1>2, FS_Subset DEF left

LEMMA DiscoveryStepInv == DiscoveryInv /\ [Discovery!Next]_discoveryVars => DiscoveryInv'
<1> SUFFICES ASSUME DiscoveryInv, [Discovery!Next]_discoveryVars PROVE DiscoveryInv'
  OBVIOUS
<1> DEFINE servers == Cardinality(Servers)
           pending == Cardinality(Pending(inbox))
<1>1. /\ running \subseteq Servers /\ asked \in Nat /\ replies \in Nat
      /\ inbox \in [Servers -> Seq({"request", "advert"})]
      /\ IsFiniteSet(Pending(inbox)) /\ replies + pending <= servers * asked
      /\ servers \in Nat /\ pending \in Nat
  BY HostAssumption, FS_CardinalityType DEF DiscoveryInv
<1>2. CASE Discovery!Request
  <2>1. PICK hearers \in SUBSET Servers : inbox' = Discovery!Broadcast(inbox, "request", hearers)
    BY <1>1, <1>2 DEF Discovery!Request
  <2>2. asked' = asked + 1 /\ replies' = replies /\ running' = running
    BY <1>2 DEF Discovery!Request
  <2>3. /\ inbox' \in [Servers -> Seq({"request", "advert"})]
        /\ IsFiniteSet(Pending(inbox')) /\ Cardinality(Pending(inbox')) <= pending + servers
    BY <1>1, <2>1, RequestsArePendingOnce
  <2>4. Cardinality(Pending(inbox')) \in Nat
    BY <2>3, FS_CardinalityType
  <2> HIDE DEF servers, pending
  <2>5. servers * (asked + 1) = servers * asked + servers /\ servers * asked \in Nat
    BY <1>1
  <2>6. replies + Cardinality(Pending(inbox')) <= servers * (asked + 1)
    BY <1>1, <2>3, <2>4, <2>5
  <2> QED
    BY <1>1, <2>2, <2>3, <2>6 DEF DiscoveryInv, servers, Pending
<1>3. ASSUME NEW s \in Servers, Discovery!Advertise(s) PROVE DiscoveryInv'
  <2>1. PICK hearers \in SUBSET Servers : inbox' = Discovery!Broadcast(inbox, "advert", hearers)
    BY <1>1, <1>3 DEF Discovery!Advertise
  <2>3. asked' = asked /\ replies' = replies /\ running' = running
    BY <1>3 DEF Discovery!Advertise
  <2>2. inbox' \in [Servers -> Seq({"request", "advert"})] /\ Pending(inbox') = Pending(inbox)
    BY <1>1, <2>1, AdvertsAreNotPending
  <2> QED
    BY <1>1, <2>2, <2>3 DEF DiscoveryInv, Pending
<1>4. ASSUME NEW s \in Servers, Discovery!Receive(s) PROVE DiscoveryInv'
  <2> DEFINE left == [inbox EXCEPT ![s] = Tail(@)]
  <2>1. /\ left \in [Servers -> Seq({"request", "advert"})]
        /\ IsFiniteSet(Pending(left)) /\ Cardinality(Pending(left)) <= pending
        /\ Head(inbox[s]) = "request" => Cardinality(Pending(left)) < pending
    <3>1. inbox[s] # <<>>
      BY <1>4 DEF Discovery!Receive
    <3> QED
      BY <1>1, <3>1, ReceivedIsNotPending
  <2>2. Cardinality(Pending(left)) \in Nat
    BY <2>1, FS_CardinalityType
  <2>3. asked' = asked
    BY <1>4 DEF Discovery!Receive
  <2>4. inbox[s] # <<>> /\ Head(inbox[s]) \in {"request", "advert"}
    <3>1. inbox[s] \in Seq({"request", "advert"}) /\ inbox[s] # <<>>
      BY <1>1, <1>4 DEF Discovery!Receive
    <3> QED
      BY <3>1
  <2>5. CASE Head(inbox[s]) = "advert"
    <3>1. inbox' = left /\ replies' = replies /\ running' = running
      BY <1>4, <2>5 DEF Discovery!Receive, Discovery!IsAdvert
    <3> HIDE DEF left, pending, servers
    <3>2. replies + Cardinality(Pending(left)) <= servers * asked
      BY <1>1, <2>1, <2>2
    <3> QED
      BY <1>1, <2>1, <2>3, <3>1, <3>2 DEF DiscoveryInv, Pending, servers
  <2>6. CASE Head(inbox[s]) = "request" /\ Discovery!Answer(left)
    <3> HIDE DEF left
    <3>1. PICK hearers \in SUBSET Servers : inbox' = Discovery!Broadcast(left, "advert", hearers)
      BY <1>1, <2>6 DEF Discovery!Answer
    <3>2. inbox' \in [Servers -> Seq({"request", "advert"})] /\ Pending(inbox') = Pending(left)
      BY <2>1, <3>1, AdvertsAreNotPending
    <3>3. replies' \in {replies, replies + 1} /\ running' = running
      BY <2>6 DEF Discovery!Answer
    <3> HIDE DEF pending, servers
    <3>4. replies' \in Nat /\ replies' + Cardinality(Pending(left)) <= servers * asked
      BY <1>1, <2>1, <2>2, <2>6, <3>3
    <3> QED
      BY <1>1, <2>1, <2>3, <3>2, <3>3, <3>4 DEF DiscoveryInv, Pending, servers
  <2>7. CASE Discovery!End(s)
    <3> DEFINE rest == [inbox EXCEPT ![s] = <<>>]
    <3>1. inbox' = rest /\ replies' = replies /\ running' \subseteq Servers
      BY <1>1, <2>7 DEF Discovery!End
    <3>2. /\ rest \in [Servers -> Seq({"request", "advert"})]
          /\ IsFiniteSet(Pending(rest)) /\ Cardinality(Pending(rest)) <= pending
      BY <1>1, LostIsNotPending
    <3>3. Cardinality(Pending(rest)) \in Nat
      BY <3>2, FS_CardinalityType
    <3> HIDE DEF rest, pending, servers
    <3>4. replies + Cardinality(Pending(rest)) <= servers * asked
      BY <1>1, <3>2, <3>3
    <3> QED
      BY <1>1, <2>3, <3>1, <3>2, <3>4 DEF DiscoveryInv, Pending, servers
  <2>8. Head(inbox[s]) = "request" => Discovery!Answer(left) \/ Discovery!End(s)
    BY <1>4 DEF Discovery!Receive, Discovery!IsAdvert
  <2> QED
    BY <2>4, <2>5, <2>6, <2>7, <2>8
<1>5. CASE UNCHANGED discoveryVars
  BY <1>1, <1>5 DEF discoveryVars, DiscoveryInv, Pending
<1> QED
  BY <1>2, <1>3, <1>4, <1>5 DEF Discovery!Next

LEMMA SameCount == \A S : Discovery!Cardinality(S) = Cardinality(S)
BY DEF Discovery!Cardinality, Cardinality

\* However many servers hear each other's answers, a request has one answer
\* of each at most (main of splunk_discovery_server.py).
THEOREM AnswersDoNotEcho == Spec => []NoEcho
<1>1. Init => DiscoveryInv
  BY DiscoveryInit DEF Init
<1>2. DiscoveryInv /\ [Next]_vars => DiscoveryInv'
  BY DiscoveryMoves, DiscoveryStepInv
<1>3. DiscoveryInv => NoEcho
  <2> SUFFICES ASSUME DiscoveryInv PROVE NoEcho
    OBVIOUS
  <2>1. /\ replies \in Nat /\ Cardinality(Pending(inbox)) \in Nat
        /\ replies + Cardinality(Pending(inbox)) <= Cardinality(Servers) * asked
        /\ Cardinality(Servers) * asked \in Nat
    BY HostAssumption, FS_CardinalityType DEF DiscoveryInv
  <2>2. replies <= Cardinality(Servers) * asked
    BY <2>1
  <2> QED
    BY <2>2, SameCount DEF NoEcho, Discovery!NoEcho
<1> QED
  BY <1>1, <1>2, <1>3, PTL DEF Spec

-----------------------------------------------------------------------------
(* The serial monitor *)

\* The text in the buffer, if there is one.
Waiting == buffer \notin {0, Monitor!Unset}

(***************************************************************************)
(* The texts: whatever is still to be written was typed after everything   *)
(* that is written already.  A text that has been taken but not written    *)
(* counts, also while it is still in the buffer.                           *)
(***************************************************************************)
TextInv ==
    /\ thread \in Monitor!Steps
    /\ buffer \in 0..Monitor!Unset /\ taken \in 0..MaxTexts /\ typed \in 0..MaxTexts
    /\ written \in Seq(1..MaxTexts)
    /\ Monitor!WrittenInOrder
    /\ Waiting => buffer <= typed
    /\ thread = "take" => Waiting
    /\ thread \in {"test", "take", "read", "ended"} =>
          (Waiting => \A i \in DOMAIN written : written[i] < buffer)
    /\ thread \in {"clear", "write"} =>
          /\ 1 <= taken /\ taken <= typed
          /\ \A i \in DOMAIN written : written[i] < taken
          /\ buffer # Monitor!Unset
    /\ thread = "clear" => taken <= buffer
    /\ thread = "write" => (Waiting => taken < buffer)

LEMMA TextInit == Monitor!Init => TextInv
BY HostAssumption DEF Monitor!Init, TextInv, Monitor!WrittenInOrder, Waiting, Monitor!Steps, Monitor!Unset

LEMMA TextStep == TextInv /\ [Monitor!Next]_monitorVars => TextInv'
<1> SUFFICES ASSUME TextInv, [Monitor!Next]_monitorVars PROVE TextInv'
  OBVIOUS
<1>1. MaxTexts \in Nat /\ Monitor!Unset = MaxTexts + 1
  BY HostAssumption DEF Monitor!Unset
<1>2. CASE Monitor!Assign
  BY <1>1, <1>2 DEF Monitor!Assign, TextInv, Monitor!WrittenInOrder, Waiting, Monitor!Steps, Monitor!capture
<1>3. CASE Monitor!Type
  <2>1. \A i \in DOMAIN written : written[i] \in Nat /\ written[i] <= typed
    BY <1>1 DEF TextInv, Monitor!WrittenInOrder
  <2> QED
    BY <1>1, <1>3, <2>1 DEF Monitor!Type, TextInv, Monitor!WrittenInOrder, Waiting, Monitor!Steps, Monitor!capture
<1>4. CASE Monitor!Close
  BY <1>1, <1>4 DEF Monitor!Close, TextInv, Monitor!WrittenInOrder, Waiting, Monitor!capture
<1>5. CASE Monitor!Test
  BY <1>1, <1>5 DEF Monitor!Test, Monitor!Reading, TextInv, Monitor!WrittenInOrder, Waiting, Monitor!Steps, Monitor!capture
<1>6. CASE Monitor!Take
  BY <1>1, <1>6 DEF Monitor!Take, TextInv, Monitor!WrittenInOrder, Waiting, Monitor!Steps, Monitor!capture
<1>7. CASE Monitor!Clear
  BY <1>1, <1>7 DEF Monitor!Clear, Monitor!Cleared, TextInv, Monitor!WrittenInOrder, Waiting, Monitor!Steps, Monitor!capture
<1>12. CASE Monitor!Write /\ thread' = "ended"
  <2>1. /\ thread = "write" /\ thread' = "ended" /\ written' = written
        /\ UNCHANGED <<buffer, taken, typed>>
    BY <1>12 DEF Monitor!Write
  <2>2. Waiting => \A i \in DOMAIN written : written[i] < buffer
    <3>1. /\ \A i \in DOMAIN written : written[i] \in Nat /\ written[i] < taken
          /\ taken \in Nat /\ buffer \in Nat
          /\ Waiting => taken < buffer
      BY <1>1, <2>1 DEF TextInv
    <3> QED
      BY <3>1
  <2> QED
    BY <2>1, <2>2 DEF TextInv, Monitor!WrittenInOrder, Waiting, Monitor!Steps
<1>8. CASE Monitor!Write /\ thread' # "ended"
  <2>1. /\ written' = Append(written, taken) /\ thread = "write" /\ thread' = "read"
        /\ UNCHANGED <<buffer, taken, typed>>
        /\ written \in Seq(1..MaxTexts) /\ taken \in 1..MaxTexts /\ taken <= typed
    BY <1>1, <1>8 DEF Monitor!Write, Monitor!DeviceLost, TextInv
  <2>2. /\ written' \in Seq(1..MaxTexts)
        /\ Len(written') = Len(written) + 1
        /\ written'[Len(written')] = taken
        /\ \A i \in DOMAIN written : written'[i] = written[i]
        /\ DOMAIN written = 1..Len(written) /\ DOMAIN written' = 1..(Len(written) + 1)
    BY <2>1
  <2>3. \A i \in DOMAIN written : written[i] \in Nat /\ written[i] < taken
    BY <1>1, <2>1 DEF TextInv
  <2>4. Monitor!WrittenInOrder'
    <3>1. ASSUME NEW i \in DOMAIN written', NEW j \in DOMAIN written', i < j
          PROVE  written'[i] < written'[j]
      <4>1. i \in DOMAIN written
        BY <2>2, <3>1
      <4>2. CASE j \in DOMAIN written
        BY <2>2, <3>1, <4>1, <4>2 DEF TextInv, Monitor!WrittenInOrder
      <4>3. CASE j = Len(written')
        BY <2>2, <2>3, <4>1, <4>3
      <4> QED
        BY <2>2, <4>2, <4>3
    <3>2. ASSUME NEW i \in DOMAIN written' PROVE written'[i] <= typed'
      BY <2>1, <2>2, <3>2 DEF TextInv, Monitor!WrittenInOrder
    <3> QED
      BY <3>1, <3>2 DEF Monitor!WrittenInOrder
  <2>5. Waiting' => \A i \in DOMAIN written' : written'[i] < buffer'
    <3>1. Waiting => taken < buffer /\ buffer \in Nat
      BY <2>1 DEF TextInv
    <3> QED
      BY <2>1, <2>2, <2>3, <3>1 DEF Waiting
  <2> QED
    BY <1>1, <2>1, <2>2, <2>4, <2>5 DEF TextInv, Waiting, Monitor!Steps
<1>9. CASE Monitor!Read
  BY <1>1, <1>9 DEF Monitor!Read, Monitor!DeviceLost, TextInv, Monitor!WrittenInOrder, Waiting, Monitor!Steps
<1>10. CASE Monitor!Start \/ Monitor!Stop
  BY <1>10 DEF Monitor!Start, Monitor!Stop, Monitor!serial, TextInv, Monitor!WrittenInOrder, Waiting
<1>11. CASE UNCHANGED monitorVars
  BY <1>11 DEF monitorVars, Monitor!serial, TextInv, Monitor!WrittenInOrder, Waiting
<1> QED
  BY <1>2, <1>3, <1>4, <1>5, <1>6, <1>7, <1>8, <1>9, <1>10, <1>11, <1>12 DEF Monitor!Next, Monitor!Thread

\* However window and thread interleave, texts are written in the order in
\* which they were typed, and none of them twice (sendSerial, readSerial).
THEOREM TextsInOrder == Spec => []WrittenInOrder
<1>1. Init => TextInv
  BY TextInit DEF Init
<1>2. TextInv /\ [Next]_vars => TextInv'
  BY MonitorMoves, TextStep
<1>3. TextInv => WrittenInOrder
  BY DEF TextInv, WrittenInOrder
<1> QED
  BY <1>1, <1>2, <1>3, PTL DEF Spec

-----------------------------------------------------------------------------
(***************************************************************************)
(* The captures: no pipe is open exactly while a header is required, and a *)
(* reader for whom none was opened yet has been given nothing.             *)
(***************************************************************************)
CaptureInv ==
    /\ {reader, readers, fifo} \subseteq 0..MaxReaders
    /\ reader <= readers
    /\ header \in BOOLEAN
    /\ pipe \in [1..MaxReaders -> Seq({"header", "packet"})]
    /\ unflushed \in Seq({"packet"})
    /\ header <=> fifo = 0
    /\ \A r \in 1..MaxReaders : readers < r => pipe[r] = <<>>
    /\ fifo = 0 /\ reader # 0 => pipe[reader] = <<>>
    /\ Monitor!CaptureIsReadable

LEMMA CaptureInit == Monitor!Init => CaptureInv
BY HostAssumption DEF Monitor!Init, CaptureInv, Monitor!CaptureIsReadable

\* All of a sequence, and what is behind it.
LEMMA WholeAndNothing ==
  ASSUME NEW S, NEW s \in Seq(S)
  PROVE  SubSeq(s, 1, Len(s)) = s /\ SubSeq(s, Len(s) + 1, Len(s)) = <<>>
OBVIOUS

LEMMA CapturePacket == ASSUME CaptureInv, Monitor!Packet, UNCHANGED <<reader, readers>> PROVE CaptureInv'
<1>1. /\ MaxReaders \in Nat /\ reader \in 0..MaxReaders /\ fifo \in 0..MaxReaders
      /\ readers \in 0..MaxReaders
      /\ pipe \in [1..MaxReaders -> Seq({"header", "packet"})]
  BY HostAssumption DEF CaptureInv
<1>2. CASE reader = 0
  <2>1. header' = TRUE /\ fifo' = 0 /\ pipe' = pipe /\ unflushed' \in {unflushed, <<>>}
    BY <1>2 DEF Monitor!Packet, Monitor!Opened, Monitor!Broken, Monitor!HeaderAfterBreak
  <2>2. unflushed' \in Seq({"packet"})
    <3>1. <<>> \in Seq({"packet"}) /\ unflushed \in Seq({"packet"})
      BY DEF CaptureInv
    <3> QED
      BY <2>1, <3>1
  <2>3. /\ {reader, readers, fifo}' \subseteq 0..MaxReaders
        /\ reader' = 0 /\ readers' = readers /\ reader <= readers
        /\ header' \in BOOLEAN /\ (header' <=> fifo' = 0)
    BY <1>1, <1>2, <2>1 DEF CaptureInv
  <2> QED
    BY <1>2, <2>1, <2>2, <2>3 DEF CaptureInv, Monitor!CaptureIsReadable
<1>3. CASE reader # 0
  <2> DEFINE records == IF header THEN <<"header", "packet">> ELSE unflushed \o <<"packet">>
             given == pipe[reader]
  <2>1. /\ Monitor!Opened # 0 /\ Monitor!Opened \in 1..MaxReaders /\ reader \in 1..MaxReaders
        /\ Monitor!Flush(records)
    <3>1. Monitor!Opened \in 1..MaxReaders /\ Monitor!Opened # 0 /\ reader \in 1..MaxReaders
      BY <1>1, <1>3 DEF Monitor!Opened
    <3> QED
      BY <1>3, <3>1 DEF Monitor!Packet
  <2>9. PICK n \in 0..Len(records) :
          /\ header => n = Len(records)
          /\ pipe' = [pipe EXCEPT ![reader] = given \o SubSeq(records, 1, n)]
          /\ LET rest == SubSeq(records, n + 1, Len(records))
             IN  unflushed' = IF Len(rest) <= MaxUnflushed THEN rest ELSE Monitor!Front(rest)
    BY <2>1 DEF Monitor!Flush
  <2>10. header' = FALSE /\ fifo' = Monitor!Opened
    BY <2>1 DEF Monitor!Flush
  <2> DEFINE record == SubSeq(records, 1, n)
             rest == SubSeq(records, n + 1, Len(records))
  <2>2. given \in Seq({"header", "packet"}) /\ unflushed \in Seq({"packet"})
    BY <1>1, <2>1 DEF CaptureInv
  <2>3. /\ header => record = <<"header", "packet">> /\ rest = <<>>
        /\ ~header => record \in Seq({"packet"}) /\ rest \in Seq({"packet"})
    <3>1. CASE header
      <4>1. records = <<"header", "packet">> /\ n = Len(records)
        BY <2>9, <3>1
      <4>2. <<"header", "packet">> \in Seq({"header", "packet"})
        OBVIOUS
      <4> HIDE DEF records
      <4>3. records \in Seq({"header", "packet"})
        BY <4>1, <4>2
      <4>4. record = <<"header", "packet">> /\ rest = <<>>
        BY <4>1, <4>3, WholeAndNothing
      <4> QED
        BY <3>1, <4>4
    <3>2. CASE ~header
      <4>1. records \in Seq({"packet"}) /\ n \in 0..Len(records)
        BY <2>2, <2>9, <3>2
      <4> HIDE DEF records
      <4>2. record \in Seq({"packet"}) /\ rest \in Seq({"packet"})
        BY <4>1
      <4> QED
        BY <3>2, <4>2
    <3> QED
      BY <3>1, <3>2
  <2> HIDE DEF records, rest
  <2>12. unflushed' \in Seq({"packet"})
    <3>4. <<>> \in Seq({"packet"})
      OBVIOUS
    <3>1. rest \in Seq({"packet"})
      BY <2>3, <3>4
    <3>2. SubSeq(rest, 1, Len(rest) - 1) \in Seq({"packet"})
      BY <3>1
    <3>3. unflushed' = rest \/ unflushed' = SubSeq(rest, 1, Len(rest) - 1)
      BY <2>9 DEF rest, Monitor!Front
    <3> QED
      BY <3>1, <3>2, <3>3
  <2> HIDE DEF record
  <2>13. \A i \in 1..Len(given) : given[i] = "header" => i = 1
    BY <2>1 DEF CaptureInv, Monitor!CaptureIsReadable
  <2>4. /\ given \o record \in Seq({"header", "packet"})
        /\ \A i \in 1..Len(given \o record) : (given \o record)[i] = "header" => i = 1
        /\ given # <<>> => given \o record # <<>> /\ (given \o record)[1] = given[1]
        /\ header => given \o record # <<>> /\ (given \o record)[1] = "header"
    <3>1. CASE header
      <4>1. given = <<>> /\ record = <<"header", "packet">>
        BY <1>3, <2>3, <3>1 DEF CaptureInv
      <4> QED
        BY <3>1, <4>1
    <3>2. CASE ~header
      <4>1. record \in Seq({"packet"})
        BY <2>3, <3>2
      <4> HIDE DEF given
      <4>2. \A i \in 1..Len(record) : record[i] = "packet"
        BY <4>1
      <4>3. record \in Seq({"header", "packet"})
        BY <4>1
      <4> QED
        BY <2>2, <2>13, <3>2, <4>2, <4>3
    <3> QED
      BY <3>1, <3>2
  <2>14. pipe' = [pipe EXCEPT ![reader] = given \o record]
    BY <2>9 DEF record
  <2> HIDE DEF given
  <2>5. pipe' \in [1..MaxReaders -> Seq({"header", "packet"})]
    BY <1>1, <2>1, <2>4, <2>14
  <2>15. pipe'[reader] = given \o record /\ \A r \in 1..MaxReaders : r # reader => pipe'[r] = pipe[r]
    BY <1>1, <2>1, <2>14
  <2>6. Monitor!CaptureIsReadable'
    <3>1. ASSUME NEW r \in 1..MaxReaders, NEW i \in DOMAIN pipe'[r], pipe'[r][i] = "header"
          PROVE  i = 1
      <4>1. CASE r = reader
        <5>1. pipe'[r] = given \o record /\ i \in DOMAIN (given \o record)
          BY <2>15, <4>1
        <5>2. DOMAIN (given \o record) = 1..Len(given \o record)
          BY <2>4
        <5> QED
          BY <2>4, <3>1, <5>1, <5>2
      <4>2. CASE r # reader
        BY <2>15, <3>1, <4>2 DEF CaptureInv, Monitor!CaptureIsReadable
      <4> QED
        BY <4>1, <4>2
    <3>2. pipe'[fifo'] # <<>> /\ pipe'[fifo'][1] = "header"
      <4>1. CASE fifo = 0
        <5>1. fifo' = reader /\ header
          BY <2>10, <4>1 DEF Monitor!Opened, CaptureInv
        <5> QED
          BY <2>4, <2>15, <5>1
      <4>2. CASE fifo # 0
        <5>1. /\ fifo' = fifo /\ fifo \in 1..MaxReaders
              /\ pipe[fifo] # <<>> /\ pipe[fifo][1] = "header"
          BY <1>1, <2>10, <4>2 DEF Monitor!Opened, CaptureInv, Monitor!CaptureIsReadable
        <5>2. CASE fifo = reader
          BY <2>4, <2>15, <5>1, <5>2 DEF given
        <5>3. CASE fifo # reader
          BY <2>15, <5>1, <5>3
        <5> QED
          BY <5>2, <5>3
      <4> QED
        BY <4>1, <4>2
    <3> QED
      BY <3>1, <3>2 DEF Monitor!CaptureIsReadable
  <2>7. \A r \in 1..MaxReaders : readers' < r => pipe'[r] = <<>>
    BY <1>1, <2>1, <2>15 DEF CaptureInv
  <2>8. /\ reader' = reader /\ readers' = readers /\ reader <= readers
        /\ reader' \in 0..MaxReaders /\ readers' \in 0..MaxReaders /\ fifo' \in 0..MaxReaders
        /\ fifo' # 0 /\ header' = FALSE
    BY <1>1, <2>1, <2>10 DEF CaptureInv
  <2> QED
    BY <1>1, <2>5, <2>6, <2>7, <2>8, <2>12 DEF CaptureInv
<1> QED
  BY <1>2, <1>3

LEMMA CaptureStep == CaptureInv /\ [Monitor!Next]_monitorVars => CaptureInv'
<1> SUFFICES ASSUME CaptureInv, [Monitor!Next]_monitorVars PROVE CaptureInv'
  OBVIOUS
<1>1. CASE UNCHANGED Monitor!capture
  BY <1>1 DEF Monitor!capture, CaptureInv, Monitor!CaptureIsReadable
<1>2. CASE Monitor!Read
  BY <1>1, <1>2, CapturePacket DEF Monitor!Read, Monitor!DeviceLost
<1>3. CASE Monitor!Start
  BY <1>3, HostAssumption DEF Monitor!Start, CaptureInv, Monitor!CaptureIsReadable
<1>4. CASE Monitor!Stop
  BY <1>4, HostAssumption DEF Monitor!Stop, CaptureInv, Monitor!CaptureIsReadable
<1>5. CASE Monitor!Assign \/ Monitor!Type \/ Monitor!Close \/ Monitor!Test \/ Monitor!Take \/ Monitor!Clear \/ Monitor!Write
  BY <1>1, <1>5 DEF Monitor!Assign, Monitor!Type, Monitor!Close, Monitor!Test, Monitor!Take, Monitor!Clear, Monitor!Write
<1>6. CASE UNCHANGED monitorVars
  BY <1>1, <1>6 DEF monitorVars, Monitor!capture
<1> QED
  BY <1>2, <1>3, <1>4, <1>5, <1>6 DEF Monitor!Next, Monitor!Thread

\* Whenever Wireshark comes and goes, a capture has its header first and only
\* once (handleReceivedFrame).
THEOREM CapturesAreReadable == Spec => []CaptureIsReadable
<1>1. Init => CaptureInv
  BY CaptureInit DEF Init
<1>2. CaptureInv /\ [Next]_vars => CaptureInv'
  BY MonitorMoves, CaptureStep
<1>3. CaptureInv => CaptureIsReadable
  BY DEF CaptureInv, CaptureIsReadable
<1> QED
  BY <1>1, <1>2, <1>3, PTL DEF Spec

=============================================================================
