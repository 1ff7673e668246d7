--------------------------- MODULE PeerGuardProofs ---------------------------
(***************************************************************************)
(* Proofs about PeerGuard, for a clock of any range, windows and blocks of *)
(* any length and any number of sources: a block lasts as long as it should*)
(* and then ends, a window that is over turns nobody away, and no more than*)
(* two bursts are served within a window.                                  *)
(***************************************************************************)
EXTENDS PeerGuard, TLAPS

(***************************************************************************)
(* What the guards say of true time: n + b - a and u are the same reading  *)
(* of the clock, give or take some turns.                                  *)
(***************************************************************************)
SameReading(n, b, a, u) ==
    LET d == n + b - a - u
    IN  d = 0 \/ d = Modulus \/ d + Modulus = 0 \/ d + 2 * Modulus = 0

\* The deadline of a block is BlockMs after the failure that started it.
BlockClock(p) ==
    block_age[p] < AgeCap =>
        guards[p].in_use /\ SameReading(now, BlockMs, block_age[p], guards[p].blocked_until)

\* The window started when it started.
WindowClock(p) ==
    guards[p].in_use /\ window_age[p] < Modulus =>
        SameReading(now, 0, window_age[p], guards[p].window_start)

ClockInv ==
    /\ now \in Time
    /\ guards \in [Peers -> Guard]
    /\ block_age \in [Peers -> 0..AgeCap]
    /\ window_age \in [Peers -> 0..AgeCap]
    /\ \A p \in Peers : BlockClock(p) /\ WindowClock(p)

-----------------------------------------------------------------------------
(* Arithmetic *)

LEMMA ModulusType == Modulus \in Nat /\ Modulus > 0 /\ AgeCap = 2 * Modulus /\ Time = 0..(Modulus - 1)
BY GuardAssumption DEF AgeCap, Time

LEMMA Residue ==
  ASSUME NEW q \in Int, NEW r \in 0..(Modulus - 1)
  PROVE  (Modulus * q + r) % Modulus = r
BY ModulusType, SMT

\* The remainder of what is at most one turn away.
LEMMA Remainder ==
  ASSUME NEW x \in Int
  PROVE  /\ x % Modulus \in Time
         /\ 0 <= x /\ x < Modulus => x % Modulus = x
         /\ Modulus <= x /\ x < 2 * Modulus => x % Modulus = x - Modulus
         /\ -Modulus <= x /\ x < 0 => x % Modulus = x + Modulus
<1>1. x % Modulus \in Time
  BY ModulusType, SMT
<1>2. 0 <= x /\ x < Modulus => (Modulus * 0 + x) % Modulus = x
  BY ModulusType, Residue
<1>3. Modulus <= x /\ x < 2 * Modulus => (Modulus * 1 + (x - Modulus)) % Modulus = x - Modulus
  BY ModulusType, Residue
<1>4. -Modulus <= x /\ x < 0 => (Modulus * (-1) + (x + Modulus)) % Modulus = x + Modulus
  BY ModulusType, Residue
<1>5. /\ Modulus * 0 + x = x
      /\ Modulus * 1 + (x - Modulus) = x
      /\ Modulus * (-1) + (x + Modulus) = x
  BY ModulusType
<1> QED
  BY <1>1, <1>2, <1>3, <1>4, <1>5

\* The clock and an age advance together.
LEMMA ReadingTick ==
  ASSUME NEW n \in 0..(Modulus - 1), NEW m \in 0..(Modulus - 1), m = n + 1 \/ m = n + 1 - Modulus,
         NEW b \in Nat, NEW a \in Nat, NEW c \in Nat, c = a + 1, c < 2 * Modulus,
         NEW u \in 0..(Modulus - 1), SameReading(n, b, a, u)
  PROVE  SameReading(m, b, c, u)
BY ModulusType DEF SameReading

\* The clock shows an age that is less than its range.
LEMMA ReadingSince ==
  ASSUME NEW n \in 0..(Modulus - 1), NEW t \in 0..(Modulus - 1),
         NEW a \in Nat, a < Modulus, SameReading(n, 0, a, t)
  PROVE  Since(t, n) = a
BY ModulusType, Remainder DEF SameReading, Since

\* What is left of a block, or what has passed since.
LEMMA ReadingLeft ==
  ASSUME NEW n \in 0..(Modulus - 1), NEW u \in 0..(Modulus - 1),
         NEW b \in Nat, b < Modulus, NEW a \in Nat, a < 2 * Modulus,
         SameReading(n, b, a, u)
  PROVE  /\ a <= b => Since(n, u) = b - a
         /\ b < a /\ a - b <= Modulus => Since(n, u) = (IF a - b = Modulus THEN 0 ELSE Modulus - (a - b))
<1>1. /\ a <= b => b - a \in 0..(Modulus - 1)
      /\ u - n \in Int
  BY ModulusType
<1>2. CASE a <= b
  <2>1. u - n = b - a \/ u - n = b - a - Modulus
    BY <1>2, ModulusType DEF SameReading
  <2> QED
    BY <1>1, <1>2, <2>1, ModulusType, Remainder DEF Since
<1>3. CASE b < a /\ a - b <= Modulus
  <2>1. u - n = b - a \/ u - n = b - a + Modulus
    BY <1>3, ModulusType DEF SameReading
  <2> QED
    BY <1>3, <2>1, ModulusType, Remainder DEF Since
<1> QED
  BY <1>2, <1>3

-----------------------------------------------------------------------------
(* The functions on a guard *)

LEMMA EmptyGuard == EmptySlot \in Guard /\ ~EmptySlot.in_use
BY ModulusType DEF EmptySlot, Guard, NoRequests

LEMMA GuardGetEffect ==
  ASSUME ClockInv, NEW p \in Peers
  PROVE  LET g == GuardGet(guards, p, now)
         IN  /\ g \in Guard
             /\ \/ g = guards[p]
                \/ ~guards[p].in_use /\ g.in_use /\ g.window_start = now
<1>1. CASE guards[p].in_use \/ ~HasFreeSlot(guards)
  BY <1>1 DEF GuardGet, ClockInv
<1>2. CASE ~(guards[p].in_use \/ ~HasFreeSlot(guards))
  BY <1>2, EmptyGuard DEF GuardGet, ClockInv, Guard, EmptySlot
<1> QED
  BY <1>1, <1>2

LEMMA CountRequestEffect ==
  ASSUME NEW g \in Guard, NEW k \in Kinds, now \in Time
  PROVE  LET c == CountRequest(g, k, now)
         IN  /\ c \in Guard
             /\ c.in_use = g.in_use /\ c.blocked_until = g.blocked_until
             /\ c = g \/ c.in_use
             /\ c.window_start = g.window_start \/ c.window_start = now
<1>1. RollWindow(g, k, now) \in Guard
  BY DEF RollWindow, Guard, NoRequests
<1>2. RollWindow(g, k, now).in_use = g.in_use
      /\ RollWindow(g, k, now).blocked_until = g.blocked_until
      /\ (RollWindow(g, k, now).window_start = g.window_start
            \/ RollWindow(g, k, now).window_start = now)
  BY DEF RollWindow, Guard
<1> QED
  BY <1>1, <1>2 DEF CountRequest, Guard

LEMMA RecordFailureEffect ==
  ASSUME NEW g \in Guard, now \in Time
  PROVE  LET f == RecordFailure(g, now)
         IN  /\ f \in Guard
             /\ f.in_use = g.in_use /\ f.window_start = g.window_start
             /\ f = g \/ f.in_use
             /\ f.blocked_until =
                   IF g.in_use /\ g.auth_failures + 1 >= FailsToBlock
                   THEN (now + BlockMs) % Modulus ELSE g.blocked_until
<1>1. (now + BlockMs) % Modulus \in Time
  BY Remainder, ModulusType, GuardAssumption
<1>2. CASE ~g.in_use
  BY <1>2 DEF RecordFailure
<1>3. CASE g.in_use /\ g.auth_failures + 1 >= FailsToBlock
  BY <1>1, <1>3 DEF RecordFailure, Guard
<1>4. CASE g.in_use /\ ~(g.auth_failures + 1 >= FailsToBlock)
  <2>1. RecordFailure(g, now) = [g EXCEPT !.auth_failures = g.auth_failures + 1]
    BY <1>4 DEF RecordFailure
  <2>2. g.auth_failures + 1 \in Nat
    BY DEF Guard
  <2> QED
    BY <1>4, <2>1, <2>2 DEF Guard
<1> QED
  BY <1>2, <1>3, <1>4

LEMMA RecordSuccessEffect ==
  ASSUME NEW g \in Guard
  PROVE  LET s == RecordSuccess(g)
         IN  /\ s \in Guard
             /\ s.in_use = g.in_use /\ s.window_start = g.window_start
             /\ s.blocked_until = g.blocked_until
BY DEF RecordSuccess, Guard

(***************************************************************************)
(* Whatever path a datagram takes, the guard of its source becomes one     *)
(* whose window is the old one or starts now, and whose deadline is the    *)
(* old one or that of a block that starts now.                             *)
(***************************************************************************)
Update(p, g) ==
    /\ g \in Guard
    /\ guards' = [guards EXCEPT ![p] = g]
    /\ now' = now
    /\ window_age' = [window_age EXCEPT ![p] =
            IF g.window_start # guards[p].window_start \/ g.in_use # guards[p].in_use
            THEN 0 ELSE @]
    /\ guards[p].in_use => g.in_use
    /\ ((g.window_start = guards[p].window_start /\ g.in_use = guards[p].in_use)
          \/ g.window_start = now)
    /\ \/ block_age' = block_age /\ (guards[p].in_use => g.blocked_until = guards[p].blocked_until)
       \/ /\ block_age' = [block_age EXCEPT ![p] = 0]
          /\ g.in_use /\ g.blocked_until = (now + BlockMs) % Modulus

\* A guard that a step may start from: found or made for p, perhaps counted.
Start(p, g) ==
    /\ g \in Guard
    /\ guards[p].in_use => g.in_use /\ g.blocked_until = guards[p].blocked_until
    /\ ((g.window_start = guards[p].window_start /\ g.in_use = guards[p].in_use)
          \/ g.window_start = now)

LEMMA StartGet == ASSUME ClockInv, NEW p \in Peers PROVE Start(p, GuardGet(guards, p, now))
BY GuardGetEffect DEF Start, ClockInv

LEMMA StartCounted ==
  ASSUME ClockInv, NEW p \in Peers, NEW k \in Kinds PROVE Start(p, Counted(p, k))
<1> DEFINE g == GuardGet(guards, p, now)
<1>1. g \in Guard /\ Start(p, g) /\ now \in Time
  BY StartGet DEF Start, ClockInv
<1> HIDE DEF g
<1>2. Start(p, CountRequest(g, k, now))
  BY <1>1, CountRequestEffect DEF Start
<1> QED
  BY <1>2 DEF Counted, g

LEMMA SettleUpdate ==
  ASSUME ClockInv, NEW p \in Peers, NEW g, NEW o, Start(p, g), Settle(p, g, o), block_age' = block_age
  PROVE  Update(p, g)
BY DEF Settle, Update, Start

LEMMA FailUpdate ==
  ASSUME ClockInv, NEW p \in Peers, NEW g, NEW o, Start(p, g), Fail(p, g, o)
  PROVE  Update(p, RecordFailure(g, now))
<1>1. g \in Guard /\ now \in Time /\ block_age \in [Peers -> 0..AgeCap]
  BY DEF Start, ClockInv
<1> DEFINE f == RecordFailure(g, now)
<1>2. /\ f \in Guard /\ f.in_use = g.in_use /\ f.window_start = g.window_start
      /\ f.blocked_until = IF g.in_use /\ g.auth_failures + 1 >= FailsToBlock
                           THEN (now + BlockMs) % Modulus ELSE g.blocked_until
  BY <1>1, RecordFailureEffect
<1>3. /\ Settle(p, f, o)
      /\ block_age' = [block_age EXCEPT ![p] =
            IF g.in_use /\ g.auth_failures + 1 >= FailsToBlock THEN 0 ELSE @]
  BY DEF Fail
<1> HIDE DEF f
<1>4. Start(p, g) /\ f.in_use = g.in_use /\ f.window_start = g.window_start
  BY <1>2
<1>5. /\ guards' = [guards EXCEPT ![p] = f] /\ now' = now
      /\ window_age' = [window_age EXCEPT ![p] =
            IF f.window_start # guards[p].window_start \/ f.in_use # guards[p].in_use
            THEN 0 ELSE @]
  BY <1>3 DEF Settle
<1>6. /\ guards[p].in_use => f.in_use
      /\ ((f.window_start = guards[p].window_start /\ f.in_use = guards[p].in_use)
            \/ f.window_start = now)
  BY <1>4 DEF Start
<1>7. ASSUME g.in_use /\ g.auth_failures + 1 >= FailsToBlock PROVE Update(p, f)
  <2>1. /\ block_age' = [block_age EXCEPT ![p] = 0]
        /\ f.in_use /\ f.blocked_until = (now + BlockMs) % Modulus
    BY <1>2, <1>3, <1>7
  <2> QED
    BY <1>2, <1>5, <1>6, <2>1 DEF Update
<1>8. ASSUME ~(g.in_use /\ g.auth_failures + 1 >= FailsToBlock) PROVE Update(p, f)
  <2>1. block_age' = block_age
    BY <1>1, <1>3, <1>8
  <2>2. guards[p].in_use => f.blocked_until = guards[p].blocked_until
    BY <1>2, <1>8 DEF Start
  <2> QED
    BY <1>2, <1>5, <1>6, <2>1, <2>2 DEF Update
<1> QED
  BY <1>7, <1>8 DEF f

LEMMA ReceiveUpdate ==
  ASSUME ClockInv, NEW p \in Peers, Receive(p)
  PROVE  \E g \in Guard : Update(p, g)
<1>1. ASSUME NEW g, Update(p, g) PROVE \E h \in Guard : Update(p, h)
  BY <1>1 DEF Update
<1>2. CASE Malformed(p)
  BY <1>1, <1>2, StartGet, FailUpdate DEF Malformed
<1>3. CASE BadHeader(p)
  BY <1>1, <1>3, StartGet, FailUpdate DEF BadHeader
<1>4. CASE WhileBlocked(p)
  <2>1. Start(p, guards[p])
    BY DEF Start, ClockInv
  <2> QED
    BY <1>1, <1>4, <2>1, SettleUpdate DEF WhileBlocked
<1>5. CASE PostRejected(p)
  <2>1. "data" \in Kinds
    BY <1>5, TrafficAssumption DEF PostRejected, Arrives
  <2> QED
    BY <1>1, <1>5, <2>1, StartCounted, FailUpdate DEF PostRejected
<1>6. CASE PostAccepted(p)
  <2> DEFINE g == Counted(p, "data")
  <2>1. Start(p, RecordSuccess(g))
    <3>1. "data" \in Kinds
      BY <1>6, TrafficAssumption DEF PostAccepted, Arrives
    <3>2. g \in Guard /\ Start(p, g)
      BY <3>1, StartCounted DEF Start
    <3> HIDE DEF g
    <3> QED
      BY <3>2, RecordSuccessEffect DEF Start
  <2> QED
    BY <1>1, <1>6, <2>1, SettleUpdate DEF PostAccepted
<1>7. ASSUME NEW k \in Kinds, Throttled(p, k) \/ Served(p, k)
      PROVE  \E g \in Guard : Update(p, g)
  BY <1>1, <1>7, StartCounted, SettleUpdate DEF Throttled, Served
<1>8. CASE NotFound(p)
  BY <1>1, <1>8, StartGet, SettleUpdate DEF NotFound
<1>9. CASE PostToSpentKey(p)
  <2>1. "data" \in Kinds
    BY <1>9, TrafficAssumption DEF PostToSpentKey, Arrives
  <2> QED
    BY <1>1, <1>9, <2>1, StartCounted, SettleUpdate DEF PostToSpentKey
<1> QED
  BY <1>2, <1>3, <1>4, <1>5, <1>6, <1>7, <1>8, <1>9 DEF Receive

-----------------------------------------------------------------------------
(* The invariant *)

LEMMA ClockInit == Init => ClockInv
BY ModulusType, EmptyGuard DEF Init, ClockInv, BlockClock, WindowClock, EmptySlot

LEMMA ClockTick == ASSUME ClockInv, Tick PROVE ClockInv'
<1>1. /\ now \in 0..(Modulus - 1) /\ now' \in 0..(Modulus - 1)
      /\ now' = now + 1 \/ now' = now + 1 - Modulus
  BY ModulusType, Remainder DEF Tick, ClockInv
<1>2. /\ block_age' \in [Peers -> 0..AgeCap] /\ window_age' \in [Peers -> 0..AgeCap]
      /\ \A p \in Peers : /\ block_age'[p] = Older(block_age[p])
                          /\ window_age'[p] = Older(window_age[p])
      /\ guards' = guards
  BY ModulusType DEF Tick, ClockInv, Older
<1>3. ASSUME NEW p \in Peers PROVE BlockClock(p)'
  <2>1. /\ block_age[p] \in 0..AgeCap /\ guards[p].blocked_until \in 0..(Modulus - 1)
        /\ BlockMs \in Nat
    BY ModulusType, GuardAssumption DEF ClockInv, Guard
  <2>2. SUFFICES ASSUME block_age'[p] < AgeCap
                 PROVE  /\ guards[p].in_use
                        /\ SameReading(now', BlockMs, block_age'[p], guards[p].blocked_until)
    BY <1>2 DEF BlockClock
  <2>3. block_age[p] < AgeCap /\ block_age'[p] = block_age[p] + 1
    BY <1>2, <2>1, <2>2, ModulusType DEF Older
  <2>4. guards[p].in_use /\ SameReading(now, BlockMs, block_age[p], guards[p].blocked_until)
    BY <2>3 DEF ClockInv, BlockClock
  <2> QED
    BY <1>1, <2>1, <2>2, <2>3, <2>4, ModulusType, ReadingTick
<1>4. ASSUME NEW p \in Peers PROVE WindowClock(p)'
  <2>1. window_age[p] \in 0..AgeCap /\ guards[p].window_start \in 0..(Modulus - 1)
    BY ModulusType DEF ClockInv, Guard
  <2>2. SUFFICES ASSUME guards[p].in_use, window_age'[p] < Modulus
                 PROVE  SameReading(now', 0, window_age'[p], guards[p].window_start)
    BY <1>2 DEF WindowClock
  <2>3. window_age[p] < Modulus /\ window_age'[p] = window_age[p] + 1
    BY <1>2, <2>1, <2>2, ModulusType DEF Older
  <2>4. SameReading(now, 0, window_age[p], guards[p].window_start)
    BY <2>2, <2>3 DEF ClockInv, WindowClock
  <2> QED
    BY <1>1, <2>1, <2>2, <2>3, <2>4, ModulusType, ReadingTick
<1> QED
  BY <1>1, <1>2, <1>3, <1>4, ModulusType DEF ClockInv

LEMMA ClockUpdate ==
  ASSUME BlockMs < Modulus, ClockInv, NEW p \in Peers, NEW g \in Guard, Update(p, g)
  PROVE  ClockInv'
<1>1. /\ now \in 0..(Modulus - 1) /\ now' = now /\ BlockMs \in Nat
      /\ guards \in [Peers -> Guard] /\ guards' \in [Peers -> Guard]
      /\ block_age \in [Peers -> 0..AgeCap] /\ window_age \in [Peers -> 0..AgeCap]
      /\ AgeCap \in Nat /\ AgeCap > 0
  BY ModulusType, GuardAssumption DEF ClockInv, Update
<1>2. block_age' \in [Peers -> 0..AgeCap] /\ window_age' \in [Peers -> 0..AgeCap]
  BY <1>1 DEF Update
<1>3. ASSUME NEW q \in Peers, q # p PROVE BlockClock(q)' /\ WindowClock(q)'
  <2>1. guards'[q] = guards[q] /\ block_age'[q] = block_age[q] /\ window_age'[q] = window_age[q]
    BY <1>1, <1>3 DEF Update
  <2>2. BlockClock(q) /\ WindowClock(q)
    BY DEF ClockInv
  <2> QED
    BY <1>1, <2>1, <2>2 DEF BlockClock, WindowClock
<1>4. guards'[p] = g /\ g.window_start \in 0..(Modulus - 1) /\ g.blocked_until \in 0..(Modulus - 1)
  BY <1>1, ModulusType DEF Update, Guard
<1>5. BlockClock(p)'
  <2>1. CASE /\ block_age' = block_age
             /\ guards[p].in_use => g.blocked_until = guards[p].blocked_until
    <3>1. BlockClock(p) /\ (guards[p].in_use => g.in_use)
      BY DEF ClockInv, Update
    <3> QED
      BY <1>1, <1>4, <2>1, <3>1 DEF BlockClock
  <2>2. CASE /\ block_age' = [block_age EXCEPT ![p] = 0]
             /\ g.in_use /\ g.blocked_until = (now + BlockMs) % Modulus
    <3>1. block_age'[p] = 0
      BY <1>1, <2>2
    <3>2. g.blocked_until \in {now + BlockMs, now + BlockMs - Modulus}
      BY <1>1, <2>2, ModulusType, Remainder
    <3>3. SameReading(now, BlockMs, 0, g.blocked_until)
      BY <1>1, <1>4, <3>2, ModulusType DEF SameReading
    <3> QED
      BY <1>1, <1>4, <2>2, <3>1, <3>3 DEF BlockClock
  <2> QED
    BY <2>1, <2>2 DEF Update
<1>6. WindowClock(p)'
  <2> DEFINE fresh == g.window_start # guards[p].window_start \/ g.in_use # guards[p].in_use
  <2>1. window_age'[p] = IF fresh THEN 0 ELSE window_age[p]
    BY <1>1 DEF Update
  <2>2. CASE fresh
    <3>1. g.window_start = now
      BY <2>2 DEF Update
    <3>2. SameReading(now, 0, 0, g.window_start)
      BY <1>1, <1>4, <3>1 DEF SameReading
    <3> QED
      BY <1>1, <1>4, <2>1, <2>2, <3>2 DEF WindowClock
  <2>3. CASE ~fresh
    <3>1. WindowClock(p)
      BY DEF ClockInv
    <3> QED
      BY <1>1, <1>4, <2>1, <2>3, <3>1 DEF WindowClock
  <2> QED
    BY <2>2, <2>3
<1> QED
  BY <1>1, <1>2, <1>3, <1>5, <1>6, ModulusType DEF ClockInv, Time

LEMMA ClockInvariant == ASSUME BlockMs < Modulus PROVE Spec => []ClockInv
<1>1. ClockInv /\ [Next]_vars => ClockInv'
  <2> SUFFICES ASSUME ClockInv, [Next]_vars PROVE ClockInv'
    OBVIOUS
  <2>1. CASE Tick
    BY <2>1, ClockTick
  <2>2. ASSUME NEW p \in Peers, Receive(p) PROVE ClockInv'
    BY <2>2, ReceiveUpdate, ClockUpdate
  <2>3. CASE UNCHANGED vars
    BY <2>3 DEF vars, ClockInv, BlockClock, WindowClock
  <2> QED
    BY <2>1, <2>2, <2>3 DEF Next
<1> QED
  BY <1>1, ClockInit, PTL DEF Spec

-----------------------------------------------------------------------------
(* The theorems *)

\* A source is blocked from the failure that blocks it until BlockMs later,
\* however the clock wraps, except for a deadline of 0; a block must be shorter
\* than half the range of the clock (peer_guard_record_failure,
\* peer_guard_is_blocked).
THEOREM BlocksHold == ASSUME 2 * BlockMs < Modulus PROVE Spec => []BlockHolds
<1>1. BlockMs < Modulus
  BY ModulusType, GuardAssumption
<1>2. ClockInv => BlockHolds
  <2> SUFFICES ASSUME ClockInv, NEW p \in Peers, block_age[p] < BlockMs,
                      guards[p].blocked_until # 0
               PROVE  IsBlocked(guards[p], now)
    BY DEF BlockHolds
  <2>1. /\ now \in 0..(Modulus - 1) /\ guards[p].blocked_until \in 0..(Modulus - 1)
        /\ block_age[p] \in 0..AgeCap /\ BlockMs \in Nat
    BY ModulusType, GuardAssumption DEF ClockInv, Guard
  <2>2. SameReading(now, BlockMs, block_age[p], guards[p].blocked_until)
    BY <1>1, <2>1, ModulusType DEF ClockInv, BlockClock
  <2>3. Since(now, guards[p].blocked_until) = BlockMs - block_age[p]
    BY <1>1, <2>1, <2>2, ModulusType, ReadingLeft
  <2> QED
    BY <2>1, <2>3, ModulusType DEF IsBlocked, PositiveSigned
<1> QED
  BY <1>1, <1>2, ClockInvariant, PTL

\* The block is over after BlockMs and stays over for half the range of the
\* clock (peer_guard_is_blocked).
THEOREM BlocksExpire == ASSUME 2 * BlockMs < Modulus PROVE Spec => []BlockExpires
<1>1. BlockMs < Modulus
  BY ModulusType, GuardAssumption
<1>2. ClockInv => BlockExpires
  <2> SUFFICES ASSUME ClockInv, NEW p \in Peers, BlockMs <= block_age[p],
                      2 * (block_age[p] - BlockMs) <= Modulus
               PROVE  ~IsBlocked(guards[p], now)
    BY DEF BlockExpires
  <2>1. /\ now \in 0..(Modulus - 1) /\ guards[p].blocked_until \in 0..(Modulus - 1)
        /\ block_age[p] \in 0..AgeCap /\ BlockMs \in Nat
    BY ModulusType, GuardAssumption DEF ClockInv, Guard
  <2>2. block_age[p] < AgeCap
    BY <2>1, ModulusType
  <2>3. SameReading(now, BlockMs, block_age[p], guards[p].blocked_until)
    BY <2>2 DEF ClockInv, BlockClock
  <2>4. /\ Modulus \in Nat /\ Modulus > 0 /\ 2 * (block_age[p] - BlockMs) <= Modulus
        /\ block_age[p] - BlockMs \in 0..(Modulus - 1)
    BY <2>1, ModulusType
  <2>5. CASE block_age[p] = BlockMs
    <3>1. Since(now, guards[p].blocked_until) = 0
      BY <1>1, <2>1, <2>2, <2>3, <2>4, <2>5, ReadingLeft
    <3> QED
      BY <2>1, <2>4, <3>1 DEF IsBlocked, PositiveSigned
  <2>6. CASE block_age[p] > BlockMs
    <3>1. Since(now, guards[p].blocked_until) = Modulus - (block_age[p] - BlockMs)
      BY <1>1, <2>1, <2>2, <2>3, <2>4, <2>6, ReadingLeft
    <3> QED
      BY <2>1, <2>4, <3>1 DEF IsBlocked, PositiveSigned
  <2> QED
    BY <2>1, <2>5, <2>6
<1> QED
  BY <1>1, <1>2, ClockInvariant, PTL

\* The first request after a window finds a fresh one, whichever kind of
\* request started the old one (peer_guard_roll_window).
THEOREM NoThrottleByOldCounts == ASSUME BlockMs < Modulus PROVE Spec => []NoStaleThrottle
<1>1. ClockInv => NoStaleThrottle
  <2> SUFFICES ASSUME ClockInv, NEW p \in Peers, NEW k \in Kinds, guards[p].in_use,
                      WindowMs[k] < window_age[p], window_age[p] < Modulus, Limit[k] > 0
               PROVE  WithinLimit(Counted(p, k), k)
    BY DEF NoStaleThrottle
  <2>1. /\ now \in 0..(Modulus - 1) /\ guards[p].window_start \in 0..(Modulus - 1)
        /\ window_age[p] \in 0..AgeCap /\ WindowMs[k] \in Nat /\ Limit[k] \in Nat
        /\ guards[p] \in Guard
    BY ModulusType, GuardAssumption DEF ClockInv, Guard
  <2>2. SameReading(now, 0, window_age[p], guards[p].window_start)
    BY DEF ClockInv, WindowClock
  <2>3. Since(guards[p].window_start, now) = window_age[p]
    BY <2>1, <2>2, ModulusType, ReadingSince
  <2>4. GuardGet(guards, p, now) = guards[p]
    BY DEF GuardGet
  <2>5. RollWindow(guards[p], k, now) = [guards[p] EXCEPT !.window_start = now, !.requests = NoRequests]
    BY <2>1, <2>3 DEF RollWindow
  <2>6. CountRequest(guards[p], k, now).requests[k] = 1 /\ CountRequest(guards[p], k, now).in_use
    BY <2>1, <2>5 DEF CountRequest, Guard, NoRequests
  <2> QED
    BY <2>1, <2>4, <2>6 DEF Counted, WithinLimit
<1> QED
  BY <1>1, ClockInvariant, PTL

-----------------------------------------------------------------------------
(* The bursts *)

\* How many of the counted requests of kind k were served.
Used(g, k) == IF g.requests[k] <= Limit[k] THEN g.requests[k] ELSE Limit[k]

(***************************************************************************)
(* The requests of kind k that guard g has not counted, of ages l, were    *)
(* served before its window began, a ago; those of the window before are   *)
(* no more than its limit, and all others are too old to matter.           *)
(***************************************************************************)
Bursts(g, a, l, k) ==
    /\ g.in_use =>
          \A i \in Places(k) :
             /\ Used(g, k) < i => a <= l[i] \/ l[i] = WindowMs[k]
             /\ Used(g, k) + Limit[k] < i => l[i] = WindowMs[k]
    /\ ~g.in_use => \A i \in Places(k) : l[i] = WindowMs[k]

\* No window is shorter than that of kind k: one that ends for another kind
\* has ended for this one.
Shortest(k) == \A j \in Kinds : WindowMs[k] <= WindowMs[j]

LastType ==
    /\ last = [p \in Peers |-> [k \in Kinds |-> last[p][k]]]
    /\ \A p \in Peers, k \in Kinds : last[p][k] \in [Places(k) -> 0..WindowMs[k]]

BurstInv ==
    /\ LastType
    /\ \A p \in Peers, k \in Kinds : Shortest(k) => Bursts(guards[p], window_age[p], last[p][k], k)

\* The age that the window of p has when its guard becomes g.
Age(p, g) ==
    IF g.window_start # guards[p].window_start \/ g.in_use # guards[p].in_use
    THEN 0 ELSE window_age[p]

\* The ages after another request was served.
Shifted(l, k) == [i \in Places(k) |-> IF i > 1 THEN l[i - 1] ELSE 0]

LEMMA WindowType ==
  ASSUME NEW k \in Kinds
  PROVE  WindowMs[k] \in Nat /\ Limit[k] \in Nat /\ Places(k) = 1..(2 * Limit[k] + 1)
BY GuardAssumption DEF Places

LEMMA BurstInit == Init => BurstInv
<1> SUFFICES ASSUME Init PROVE BurstInv
  OBVIOUS
<1>1. \A p \in Peers, k \in Kinds : last[p][k] = [i \in Places(k) |-> WindowMs[k]]
  BY DEF Init
<1>2. LastType
  <2>1. \A k \in Kinds : [i \in Places(k) |-> WindowMs[k]] \in [Places(k) -> 0..WindowMs[k]]
    BY WindowType
  <2> QED
    BY <1>1, <2>1 DEF Init, LastType
<1>3. \A p \in Peers : ~guards[p].in_use
  BY DEF Init, EmptySlot
<1>4. ASSUME NEW p \in Peers, NEW k \in Kinds
      PROVE  \A i \in Places(k) : last[p][k][i] = WindowMs[k]
  <2>1. last[p][k] = [i \in Places(k) |-> WindowMs[k]]
    BY <1>1
  <2> QED
    BY <2>1, Zenon
<1>5. \A p \in Peers, k \in Kinds : Bursts(guards[p], window_age[p], last[p][k], k)
  BY <1>3, <1>4 DEF Bursts
<1> QED
  BY <1>2, <1>5 DEF BurstInv

\* A window that the clock shows to be over is over.
LEMMA OverByClock ==
  ASSUME ClockInv, NEW p \in Peers, guards[p].in_use, NEW w \in Nat,
         Since(guards[p].window_start, now) > w
  PROVE  window_age[p] > w /\ guards[p].window_start # now
<1>1. /\ now \in 0..(Modulus - 1) /\ guards[p].window_start \in 0..(Modulus - 1)
      /\ window_age[p] \in 0..AgeCap
  BY ModulusType DEF ClockInv, Guard
<1>2. Since(guards[p].window_start, now) \in 0..(Modulus - 1)
  BY <1>1, ModulusType, Remainder DEF Since
<1>3. window_age[p] > w
  <2>1. CASE window_age[p] < Modulus
    <3>1. Since(guards[p].window_start, now) = window_age[p]
      BY <1>1, <2>1, ModulusType, ReadingSince DEF ClockInv, WindowClock
    <3> QED
      BY <1>1, <3>1
  <2>2. CASE ~(window_age[p] < Modulus)
    BY <1>1, <1>2, <2>2, ModulusType
  <2> QED
    BY <2>1, <2>2
<1>4. ASSUME guards[p].window_start = now PROVE FALSE
  <2>1. Since(guards[p].window_start, now) = 0
    BY <1>1, <1>4, ModulusType, Remainder DEF Since
  <2> QED
    BY <2>1
<1> QED
  BY <1>3, <1>4

LEMMA GetBursts ==
  ASSUME ClockInv, BurstInv, NEW p \in Peers, NEW k \in Kinds, Shortest(k)
  PROVE  LET g == GuardGet(guards, p, now) IN Bursts(g, Age(p, g), last[p][k], k)
<1> DEFINE g == GuardGet(guards, p, now)
<1>1. Bursts(guards[p], window_age[p], last[p][k], k) /\ guards[p] \in Guard
  BY DEF BurstInv, ClockInv
<1>2. CASE g = guards[p]
  BY <1>1, <1>2 DEF Age
<1>3. CASE g # guards[p]
  <2>1. ~guards[p].in_use
    BY <1>3 DEF GuardGet
  <2> QED
    BY <1>1, <2>1 DEF Bursts
<1> QED
  BY <1>2, <1>3

\* The guard whose window has been rolled for a request of kind j, if it was over.
LEMMA RollBursts ==
  ASSUME ClockInv, BurstInv, NEW p \in Peers, NEW j \in Kinds, NEW k \in Kinds, Shortest(k),
         GuardGet(guards, p, now).in_use
  PROVE  LET r == RollWindow(GuardGet(guards, p, now), j, now)
         IN  /\ r \in Guard /\ r.in_use /\ Bursts(r, Age(p, r), last[p][k], k)
<1> DEFINE g == GuardGet(guards, p, now)
           r == RollWindow(g, j, now)
           l == last[p][k]
<1>1. g \in Guard /\ g.in_use /\ Bursts(g, Age(p, g), l, k)
  BY GuardGetEffect, GetBursts
<1>2. WindowMs[j] \in Nat /\ WindowMs[k] <= WindowMs[j]
  BY WindowType DEF Shortest
<1>3. now \in Time
  BY DEF ClockInv
<1>4. CASE ~(Since(g.window_start, now) > WindowMs[j])
  BY <1>1, <1>4 DEF RollWindow
<1>5. CASE Since(g.window_start, now) > WindowMs[j]
  <2>1. g = guards[p] /\ guards[p].in_use
    <3>1. ASSUME g.window_start = now PROVE FALSE
      <4>1. Since(g.window_start, now) = 0
        BY <1>3, <3>1, ModulusType, Remainder DEF Since
      <4> QED
        BY <1>2, <1>5, <4>1
    <3> QED
      BY <1>1, <3>1, GuardGetEffect
  <2>2. window_age[p] > WindowMs[j] /\ window_age[p] \in Nat
    BY <1>2, <1>5, <2>1, OverByClock DEF ClockInv
  <2>3. \A i \in Places(k) : Used(guards[p], k) < i => l[i] = WindowMs[k]
    <3>1. l \in [Places(k) -> 0..WindowMs[k]] /\ WindowMs[k] \in Nat
      BY WindowType DEF BurstInv, LastType
    <3>2. Bursts(guards[p], window_age[p], l, k)
      BY DEF BurstInv
    <3> HIDE DEF l
    <3> QED
      BY <1>2, <2>1, <2>2, <3>1, <3>2 DEF Bursts
  <2> HIDE DEF g
  <2>4. r = [g EXCEPT !.window_start = now, !.requests = NoRequests]
    BY <1>5 DEF RollWindow
  <2>5. /\ r \in Guard /\ r.in_use /\ r.window_start = now /\ r.requests = NoRequests
    <3>1. NoRequests \in [Kinds -> Nat]
      BY DEF NoRequests
    <3> QED
      BY <1>1, <1>3, <2>4, <3>1 DEF Guard
  <2>6. Age(p, r) = 0
    BY <1>2, <1>5, <2>1, <2>5, OverByClock DEF Age
  <2>7. Used(r, k) = 0
    BY <2>5, WindowType DEF Used, NoRequests
  <2>8. Used(guards[p], k) \in Nat /\ Used(guards[p], k) <= Limit[k]
    BY WindowType DEF Used, ClockInv, Guard
  <2> HIDE DEF r, l
  <2>9. \A i \in Places(k) :
           /\ Used(r, k) < i => Age(p, r) <= l[i] \/ l[i] = WindowMs[k]
           /\ Used(r, k) + Limit[k] < i => l[i] = WindowMs[k]
    <3>1. \A i \in Places(k) : l[i] \in Nat
      BY WindowType DEF BurstInv, LastType, l
    <3> QED
      BY <2>3, <2>6, <2>7, <2>8, <3>1, WindowType
  <2> QED
    BY <2>5, <2>9 DEF Bursts, r, g, l
<1> QED
  BY <1>4, <1>5

\* A request is counted: if it is within the limit it is served.
LEMMA CountBursts ==
  ASSUME ClockInv, BurstInv, NEW p \in Peers, NEW j \in Kinds, NEW k \in Kinds, Shortest(k)
  PROVE  LET c == Counted(p, j)
         IN  IF j = k /\ WithinLimit(c, j)
             THEN Bursts(c, Age(p, c), Shifted(last[p][k], k), k)
             ELSE Bursts(c, Age(p, c), last[p][k], k)
<1> DEFINE g == GuardGet(guards, p, now)
           r == RollWindow(g, j, now)
           c == CountRequest(g, j, now)
           l == last[p][k]
<1>1. CASE ~g.in_use
  <2>1. c = g /\ ~WithinLimit(c, j)
    BY <1>1 DEF CountRequest, WithinLimit
  <2>2. Bursts(g, Age(p, g), l, k)
    BY GetBursts
  <2> QED
    BY <2>1, <2>2 DEF Counted
<1>2. CASE g.in_use
  <2>1. r \in Guard /\ r.in_use /\ Bursts(r, Age(p, r), l, k)
    BY <1>2, RollBursts
  <2>2. c = IF r.requests[j] > Limit[j] THEN r ELSE [r EXCEPT !.requests[j] = @ + 1]
    BY <1>2 DEF CountRequest
  <2>3. /\ r.requests \in [Kinds -> Nat] /\ Limit[j] \in Nat /\ Limit[k] \in Nat
        /\ WindowMs[k] \in Nat
    BY <2>1, WindowType DEF Guard
  <2> HIDE DEF r, g
  <2>4. CASE r.requests[j] > Limit[j]
    <3>1. c = r /\ ~WithinLimit(c, j)
      BY <2>2, <2>3, <2>4 DEF WithinLimit
    <3> QED
      BY <2>1, <3>1 DEF Counted, g
  <2>5. CASE ~(r.requests[j] > Limit[j])
    <3>1. c = [r EXCEPT !.requests = [r.requests EXCEPT ![j] = r.requests[j] + 1]]
      BY <2>2, <2>5
    <3>2. /\ c.in_use = r.in_use /\ c.window_start = r.window_start
          /\ c.requests = [r.requests EXCEPT ![j] = r.requests[j] + 1]
      BY <2>1, <3>1 DEF Guard
    <3>3. c.in_use /\ Age(p, c) = Age(p, r)
      BY <2>1, <3>2 DEF Age
    <3> HIDE DEF c
    <3>4. CASE j # k
      <4>1. Used(c, k) = Used(r, k)
        BY <2>3, <3>2, <3>4 DEF Used
      <4>2. Bursts(c, Age(p, c), l, k)
        BY <2>1, <3>3, <4>1 DEF Bursts
      <4> QED
        BY <3>4, <4>2 DEF Counted, c, g
    <3>5. CASE j = k /\ r.requests[k] = Limit[k]
      <4>1. c.requests[k] = Limit[k] + 1
        BY <2>3, <3>2, <3>5
      <4>2. ~WithinLimit(c, j)
        BY <2>3, <3>5, <4>1 DEF WithinLimit
      <4>3. Used(c, k) = Limit[k] /\ Used(r, k) = Limit[k]
        BY <2>3, <3>5, <4>1 DEF Used
      <4>4. Bursts(c, Age(p, c), l, k)
        BY <2>1, <3>3, <4>3 DEF Bursts
      <4> QED
        BY <4>2, <4>4 DEF Counted, c, g
    <3>6. CASE j = k /\ r.requests[k] # Limit[k]
      <4>1. /\ c.requests[k] = r.requests[k] + 1 /\ c.requests[k] <= Limit[k]
            /\ r.requests[k] \in Nat /\ r.requests[k] <= Limit[k]
        BY <2>3, <2>5, <3>2, <3>6
      <4>2. WithinLimit(c, j)
        BY <3>3, <3>6, <4>1 DEF WithinLimit
      <4>3. Used(c, k) = Used(r, k) + 1 /\ Used(r, k) \in Nat
        BY <2>3, <4>1 DEF Used
      <4>4. ASSUME NEW i \in Places(k), Used(c, k) < i
            PROVE  /\ i - 1 \in Places(k) /\ Used(r, k) < i - 1
                   /\ Shifted(l, k)[i] = l[i - 1]
        BY <4>3, <4>4, WindowType DEF Shifted
      <4>5. ASSUME NEW i \in Places(k)
            PROVE  /\ Used(c, k) < i => Age(p, c) <= Shifted(l, k)[i] \/ Shifted(l, k)[i] = WindowMs[k]
                   /\ Used(c, k) + Limit[k] < i => Shifted(l, k)[i] = WindowMs[k]
        <5>1. ASSUME Used(c, k) < i
              PROVE  Age(p, c) <= Shifted(l, k)[i] \/ Shifted(l, k)[i] = WindowMs[k]
          BY <2>1, <3>3, <4>4, <5>1 DEF Bursts
        <5>2. ASSUME Used(c, k) + Limit[k] < i PROVE Shifted(l, k)[i] = WindowMs[k]
          <6>1. Used(c, k) < i /\ Used(r, k) + Limit[k] < i - 1
            BY <2>3, <4>3, <5>2, WindowType
          <6> QED
            BY <2>1, <4>4, <6>1 DEF Bursts
        <5> QED
          BY <5>1, <5>2
      <4>6. Bursts(c, Age(p, c), Shifted(l, k), k)
        BY <3>3, <4>5 DEF Bursts
      <4> QED
        BY <3>6, <4>2, <4>6 DEF Counted, c, g
    <3> QED
      BY <3>4, <3>5, <3>6
  <2> QED
    BY <2>4, <2>5
<1> QED
  BY <1>1, <1>2

\* A step that makes h the guard of p, with the ages l, keeps the bound.
LEMMA SettleBursts ==
  ASSUME ClockInv, BurstInv, NEW p \in Peers, NEW h, NEW l, NEW o,
         Settle(p, h, o), last' = [last EXCEPT ![p] = l],
         l = [k \in Kinds |-> l[k]],
         \A k \in Kinds : l[k] \in [Places(k) -> 0..WindowMs[k]],
         \A k \in Kinds : Shortest(k) => Bursts(h, Age(p, h), l[k], k)
  PROVE  BurstInv'
<1>1. /\ guards' = [guards EXCEPT ![p] = h] /\ window_age' = [window_age EXCEPT ![p] = Age(p, h)]
  BY DEF Settle, Age
<1>2. guards \in [Peers -> Guard] /\ window_age \in [Peers -> 0..AgeCap]
  BY DEF ClockInv
<1>3. LastType
  BY DEF BurstInv
<1>4. guards'[p] = h /\ window_age'[p] = Age(p, h) /\ last'[p] = l
  BY <1>1, <1>2, <1>3 DEF LastType
<1>5. \A q \in Peers : q # p =>
         guards'[q] = guards[q] /\ window_age'[q] = window_age[q] /\ last'[q] = last[q]
  BY <1>1, <1>2, <1>3 DEF LastType
<1>6. LastType'
  <2>1. last' = [q \in Peers |-> last'[q]]
    BY <1>3 DEF LastType
  <2>2. ASSUME NEW q \in Peers
        PROVE  /\ last'[q] = [k \in Kinds |-> last'[q][k]]
               /\ \A k \in Kinds : last'[q][k] \in [Places(k) -> 0..WindowMs[k]]
    <3>1. CASE q = p
      BY <1>4, <3>1
    <3>2. CASE q # p
      BY <1>3, <1>5, <3>2 DEF LastType
    <3> QED
      BY <3>1, <3>2
  <2>3. last' = [q \in Peers |-> [k \in Kinds |-> last'[q][k]]]
    BY <2>1, <2>2
  <2> QED
    BY <2>2, <2>3 DEF LastType, Places
<1>7. ASSUME NEW q \in Peers, NEW k \in Kinds, Shortest(k)
      PROVE  Bursts(guards'[q], window_age'[q], last'[q][k], k)
  <2>1. CASE q = p
    BY <1>4, <1>7, <2>1
  <2>2. CASE q # p
    BY <1>5, <1>7, <2>2 DEF BurstInv
  <2> QED
    BY <2>1, <2>2
<1> QED
  BY <1>6, <1>7 DEF BurstInv, Bursts, Shortest, Used, Places

\* Failures and successes leave what the bursts depend on alone.
LEMMA SameBursts ==
  ASSUME NEW p \in Peers, NEW g \in Guard, now \in Time, NEW h \in {RecordFailure(g, now), RecordSuccess(g)}
  PROVE  /\ Age(p, h) = Age(p, g)
         /\ \A a, l, k : Bursts(g, a, l, k) => Bursts(h, a, l, k)
<1>1. h.in_use = g.in_use /\ h.window_start = g.window_start /\ h.requests = g.requests
  BY DEF RecordFailure, RecordSuccess, Guard
<1> QED
  BY <1>1 DEF Age, Bursts, Used

\* A step that serves no request.
LEMMA IdleBursts ==
  ASSUME ClockInv, BurstInv, NEW p \in Peers, NEW h, NEW o, Settle(p, h, o), last' = last,
         \A k \in Kinds : Shortest(k) => Bursts(h, Age(p, h), last[p][k], k)
  PROVE  BurstInv'
<1>1. LastType
  BY DEF BurstInv
<1>2. last' = [last EXCEPT ![p] = last[p]] /\ last[p] = [k \in Kinds |-> last[p][k]]
  BY <1>1 DEF LastType
<1>3. \A k \in Kinds : last[p][k] \in [Places(k) -> 0..WindowMs[k]]
  BY <1>1 DEF LastType
<1> QED
  BY <1>2, <1>3, SettleBursts

LEMMA FailBursts ==
  ASSUME ClockInv, BurstInv, NEW p \in Peers, NEW g \in Guard, NEW o, Fail(p, g, o), last' = last,
         \A k \in Kinds : Shortest(k) => Bursts(g, Age(p, g), last[p][k], k)
  PROVE  BurstInv'
<1> DEFINE h == RecordFailure(g, now)
<1>1. now \in Time /\ Settle(p, h, o)
  BY DEF ClockInv, Fail
<1>2. Age(p, h) = Age(p, g) /\ \A a, l, k : Bursts(g, a, l, k) => Bursts(h, a, l, k)
  BY <1>1, SameBursts
<1> HIDE DEF h
<1>3. \A k \in Kinds : Shortest(k) => Bursts(h, Age(p, h), last[p][k], k)
  BY <1>2
<1> QED
  BY <1>1, <1>3, IdleBursts

\* A request of kind j is within its limit.
LEMMA AdmittedBursts ==
  ASSUME ClockInv, BurstInv, NEW p \in Peers, NEW j \in Kinds, Admitted(p, j), NEW o,
         NEW h \in {Counted(p, j), RecordFailure(Counted(p, j), now), RecordSuccess(Counted(p, j))},
         Settle(p, h, o)
  PROVE  BurstInv'
<1> DEFINE c == Counted(p, j)
           l == [last[p] EXCEPT ![j] = Shifted(last[p][j], j)]
<1>1. c \in Guard /\ now \in Time /\ LastType
  BY StartCounted DEF Start, ClockInv, BurstInv
<1>2. WithinLimit(c, j) /\ last' = [last EXCEPT ![p] = l]
  <2>1. last' = [last EXCEPT ![p][j] = Shifted(last[p][j], j)]
    BY <1>1 DEF Admitted, Shifted, LastType
  <2> QED
    BY <1>1, <2>1 DEF Admitted, LastType
<1>3. l = [k \in Kinds |-> l[k]] /\ l[j] = Shifted(last[p][j], j) /\ \A k \in Kinds : k # j => l[k] = last[p][k]
  BY <1>1 DEF LastType
<1>4. ASSUME NEW k \in Kinds, Shortest(k) PROVE Bursts(c, Age(p, c), l[k], k)
  <2>1. IF j = k /\ WithinLimit(c, j)
        THEN Bursts(c, Age(p, c), Shifted(last[p][k], k), k)
        ELSE Bursts(c, Age(p, c), last[p][k], k)
    BY <1>4, CountBursts
  <2> HIDE DEF c, l
  <2> QED
    BY <1>2, <1>3, <2>1
<1>5. ASSUME NEW k \in Kinds PROVE l[k] \in [Places(k) -> 0..WindowMs[k]]
  <2>1. last[p][k] \in [Places(k) -> 0..WindowMs[k]] /\ WindowMs[k] \in Nat
    BY <1>1, WindowType DEF LastType
  <2>2. \A i \in Places(k) : i > 1 => i - 1 \in Places(k)
    BY WindowType
  <2>3. Shifted(last[p][k], k) \in [Places(k) -> 0..WindowMs[k]]
    BY <2>1, <2>2, WindowType DEF Shifted
  <2> HIDE DEF l
  <2> QED
    BY <1>3, <2>1, <2>3
<1>6. Age(p, h) = Age(p, c) /\ \A a, m, k : Bursts(c, a, m, k) => Bursts(h, a, m, k)
  <2> HIDE DEF c
  <2>1. h = c \/ h \in {RecordFailure(c, now), RecordSuccess(c)}
    BY DEF c
  <2> QED
    BY <1>1, <2>1, SameBursts
<1> HIDE DEF c, l
<1>7. \A k \in Kinds : Shortest(k) => Bursts(h, Age(p, h), l[k], k)
  BY <1>4, <1>6
<1> QED
  BY <1>2, <1>3, <1>5, <1>7, SettleBursts

LEMMA BurstReceive == ASSUME ClockInv, BurstInv, NEW p \in Peers, Receive(p) PROVE BurstInv'
<1> DEFINE g == GuardGet(guards, p, now)
<1>1. g \in Guard /\ \A k \in Kinds : Shortest(k) => Bursts(g, Age(p, g), last[p][k], k)
  BY GuardGetEffect, GetBursts
<1>2. CASE Malformed(p) \/ BadHeader(p)
  BY <1>1, <1>2, FailBursts DEF Malformed, BadHeader
<1>3. CASE WhileBlocked(p)
  <2>1. \A k \in Kinds : Shortest(k) => Bursts(guards[p], Age(p, guards[p]), last[p][k], k)
    BY DEF BurstInv, Age
  <2> QED
    BY <1>3, <2>1, IdleBursts DEF WhileBlocked
<1>4. CASE PostToSpentKey(p) \/ PostRejected(p) \/ PostAccepted(p)
  <2>1. "data" \in Kinds /\ Admitted(p, "data")
    BY <1>4, TrafficAssumption DEF PostToSpentKey, PostRejected, PostAccepted, Arrives
  <2> QED
    BY <1>4, <2>1, AdmittedBursts DEF PostToSpentKey, PostRejected, PostAccepted, Fail
<1>7. CASE NotFound(p)
  BY <1>1, <1>7, IdleBursts DEF NotFound
<1>5. ASSUME NEW k \in Kinds, Served(p, k) PROVE BurstInv'
  BY <1>5, AdmittedBursts DEF Served
<1>6. ASSUME NEW j \in Kinds, Throttled(p, j) PROVE BurstInv'
  <2> DEFINE c == Counted(p, j)
  <2>1. ~WithinLimit(c, j) /\ Settle(p, c, "limited") /\ last' = last
    BY <1>6 DEF Throttled
  <2>2. \A k \in Kinds : Shortest(k) => Bursts(c, Age(p, c), last[p][k], k)
    BY <2>1, CountBursts
  <2> QED
    BY <2>1, <2>2, IdleBursts
<1> QED
  BY <1>2, <1>3, <1>4, <1>5, <1>6, <1>7 DEF Receive

LEMMA BurstTick == ASSUME ClockInv, BurstInv, Tick PROVE BurstInv'
<1> DEFINE later(l, k) == [i \in Places(k) |-> IF l[i] < WindowMs[k] THEN l[i] + 1 ELSE WindowMs[k]]
<1>1. /\ guards' = guards /\ \A p \in Peers : window_age'[p] = Older(window_age[p])
      /\ last' = [p \in Peers |-> [k \in Kinds |-> later(last[p][k], k)]]
  BY DEF Tick
<1>2. ASSUME NEW p \in Peers, NEW k \in Kinds
      PROVE  /\ last'[p][k] \in [Places(k) -> 0..WindowMs[k]]
             /\ \A i \in Places(k) : /\ last[p][k][i] \in Nat /\ last[p][k][i] <= WindowMs[k]
                                     /\ last'[p][k][i] = WindowMs[k] \/ last'[p][k][i] = last[p][k][i] + 1
                                     /\ last[p][k][i] = WindowMs[k] => last'[p][k][i] = WindowMs[k]
  <2>1. last'[p][k] = later(last[p][k], k)
    BY <1>1
  <2>2. last[p][k] \in [Places(k) -> 0..WindowMs[k]] /\ WindowMs[k] \in Nat
    BY WindowType DEF BurstInv, LastType
  <2> QED
    BY <2>1, <2>2
<1>3. LastType'
  <2>1. last' = [p \in Peers |-> [k \in Kinds |-> last'[p][k]]]
    BY <1>1
  <2> HIDE DEF later
  <2> QED
    BY <1>2, <2>1 DEF LastType, Places
<1> HIDE DEF later
<1>4. ASSUME NEW p \in Peers, NEW k \in Kinds, Shortest(k)
      PROVE  Bursts(guards'[p], window_age'[p], last'[p][k], k)
  <2>1. Bursts(guards[p], window_age[p], last[p][k], k) /\ WindowMs[k] \in Nat
    BY <1>4, WindowType DEF BurstInv
  <2>2. window_age[p] \in Nat /\ window_age'[p] \in {window_age[p], window_age[p] + 1}
    BY <1>1, ModulusType DEF ClockInv, Older
  <2>3. \A i \in Places(k) :
           /\ last[p][k][i] \in Nat
           /\ last'[p][k][i] = WindowMs[k] \/ last'[p][k][i] = last[p][k][i] + 1
           /\ last[p][k][i] = WindowMs[k] => last'[p][k][i] = WindowMs[k]
    BY <1>2
  <2>4. guards'[p] = guards[p]
    BY <1>1
  <2> QED
    BY <2>1, <2>2, <2>3, <2>4 DEF Bursts
<1> QED
  BY <1>3, <1>4 DEF BurstInv, Bursts, Shortest, Used, Places

LEMMA BurstStep == ClockInv /\ BurstInv /\ [Next]_vars => BurstInv'
<1> SUFFICES ASSUME ClockInv, BurstInv, [Next]_vars PROVE BurstInv'
  OBVIOUS
<1>1. CASE UNCHANGED vars
  BY <1>1 DEF vars, BurstInv, LastType, Bursts, Shortest, Used, Places
<1> QED
  BY <1>1, BurstTick, BurstReceive DEF Next

\* Two bursts back to back, and never more: if the windows of all kinds are
\* equally long, as they are by default, at most twice the limit of a kind is
\* served within any window, however the clock wraps and whatever requests of
\* other kinds start new windows (peer_guard_roll_window,
\* peer_guard_allow_counter).
THEOREM BurstsAreBounded ==
  ASSUME BlockMs < Modulus, \A j, k \in Kinds : WindowMs[j] = WindowMs[k]
  PROVE  Spec => []BurstBound
<1>1. BurstInv /\ ClockInv => BurstBound
  <2> SUFFICES ASSUME BurstInv, ClockInv, NEW p \in Peers, NEW k \in Kinds
               PROVE  last[p][k][2 * Limit[k] + 1] = WindowMs[k] /\ WindowMs[k] \in Nat
    BY DEF BurstBound
  <2>1. Shortest(k) /\ WindowMs[k] \in Nat /\ Limit[k] \in Nat /\ guards[p] \in Guard
    BY WindowType DEF Shortest, ClockInv
  <2>2. Bursts(guards[p], window_age[p], last[p][k], k)
    BY <2>1 DEF BurstInv
  <2>3. /\ 2 * Limit[k] + 1 \in Places(k)
        /\ Used(guards[p], k) + Limit[k] < 2 * Limit[k] + 1
    BY <2>1, WindowType DEF Used, Guard
  <2> QED
    BY <2>1, <2>2, <2>3 DEF Bursts
<1> QED
  BY <1>1, BurstInit, BurstStep, ClockInvariant, PTL DEF Spec

\* What a source was told is one of the outcomes.
LEMMA OutcomeStep ==
  outcome \in [Peers -> Outcomes] /\ [Next]_vars => outcome' \in [Peers -> Outcomes]
BY DEF Next, vars, Tick, Receive, Malformed, WhileBlocked, BadHeader, NotFound, PostToSpentKey,
       PostRejected, PostAccepted, Throttled, Served, Fail, Settle, Outcomes

\* Type correctness of the guards and of the history kept beside them.
THEOREM GuardTypes == ASSUME BlockMs < Modulus PROVE Spec => []TypeOK
<1> DEFINE Told == outcome \in [Peers -> Outcomes]
<1>1. Init => Told
  BY DEF Init, Outcomes
<1>2. Told /\ [Next]_vars => Told'
  BY OutcomeStep
<1>3. ClockInv /\ BurstInv /\ Told => TypeOK
  BY DEF ClockInv, BurstInv, LastType, TypeOK
<1> HIDE DEF Told
<1> QED
  BY <1>1, <1>2, <1>3, BurstInit, BurstStep, ClockInvariant, PTL DEF Spec
=============================================================================
