----------------------------- MODULE GuardRecord -----------------------------
(***************************************************************************)
(* The gateway's per-source guard: one PeerGuardState record for each      *)
(* source address and the peer_guard_* functions that read and change it.  *)
(* Every operator here is a pure function of a record and of the clock;    *)
(* PeerGuard runs them over time and Gateway calls them from its handlers. *)
(*                                                                         *)
(* The clock is monotonic_ms(), an unsigned 32-bit count of milliseconds   *)
(* that wraps: times are numbers below Modulus (2^32 in the code) and the  *)
(* difference of two times is taken modulo Modulus.                        *)
(***************************************************************************)
EXTENDS Integers, FiniteSets

CONSTANTS
    Peers,          \* source addresses a datagram may come from
    Kinds,          \* request counters of a guard: "meta", "pk", "data"
    TableSize,      \* PQC_PEER_TABLE_SIZE
    Modulus,        \* the clock wraps to 0 here
    WindowMs,       \* WindowMs[k]: length of the rate window of kind k
    BlockMs,        \* PQC_PEER_BLOCK_MS
    FailsToBlock,   \* PQC_PEER_FAILS_TO_BLOCK
    Limit           \* Limit[k]: requests of kind k allowed in a window

ASSUME GuardAssumption ==
    /\ Modulus \in Nat \ {0}
    /\ WindowMs \in [Kinds -> Nat]
    /\ BlockMs \in Nat
    /\ FailsToBlock \in Nat \ {0}
    /\ Limit \in [Kinds -> Nat]

Time == 0..(Modulus - 1)

\* uint32_t subtraction of two clock readings
Since(t, now) == (now - t) % Modulus

\* Mutant of PositiveSigned: d >= 0.
PositiveOrZeroSigned(d) == 2 * d < Modulus

\* (int32_t)d > 0 for an unsigned difference d
PositiveSigned(d) == d # 0 /\ 2 * d < Modulus

Guard == [in_use: BOOLEAN,
          window_start: Time,
          requests: [Kinds -> Nat],
          auth_failures: Nat,
          blocked_until: Time]

NoRequests == [k \in Kinds |-> 0]

\* A zeroed slot. It also stands for the NULL that peer_guard_get returns
\* when the table is full: every function below ignores a NULL guard.
EmptySlot == [in_use |-> FALSE, window_start |-> 0, requests |-> NoRequests,
              auth_failures |-> 0, blocked_until |-> 0]

\* Slots are handed out and never given back.
HasFreeSlot(guards) ==
    Cardinality({p \in Peers : guards[p].in_use}) < TableSize

GuardGet(guards, p, now) ==
    IF guards[p].in_use \/ ~HasFreeSlot(guards)
    THEN guards[p]
    ELSE [EmptySlot EXCEPT !.in_use = TRUE, !.window_start = now]

\* Mutant of IsBlocked: times compared as numbers.
IsBlockedUnsigned(g, now) == g.blocked_until # 0 /\ now < g.blocked_until

\* blocked_until is never cleared: the comparison alone ends a block.
IsBlocked(g, now) ==
    /\ g.blocked_until # 0
    /\ PositiveSigned(Since(now, g.blocked_until))

\* Mutant of RollWindow: times compared as numbers.
RollWindowUnwrapped(g, k, now) ==
    IF now > g.window_start + WindowMs[k]
    THEN [g EXCEPT !.window_start = now, !.requests = NoRequests]
    ELSE g

\* Mutant of RollWindow: a new window keeps the old counts.
RollWindowOnly(g, k, now) ==
    IF Since(g.window_start, now) > WindowMs[k]
    THEN [g EXCEPT !.window_start = now]
    ELSE g

\* One window start for all kinds: rolling it for one resets the others.
RollWindow(g, k, now) ==
    IF Since(g.window_start, now) > WindowMs[k]
    THEN [g EXCEPT !.window_start = now, !.requests = NoRequests]
    ELSE g

\* The counter is kept only as far as the comparison with the limit can
\* tell: it stops one above it.
CountRequest(g, k, now) ==
    IF ~g.in_use
    THEN g
    ELSE LET rolled == RollWindow(g, k, now)
         IN  IF rolled.requests[k] > Limit[k]
             THEN rolled
             ELSE [rolled EXCEPT !.requests[k] = @ + 1]

\* Mutant of WithinLimit: the request itself is not counted.
WithinLimitButOne(counted, k) == counted.in_use /\ counted.requests[k] <= Limit[k] + 1

\* What peer_guard_allow_counter answers, given the counted guard.
WithinLimit(counted, k) == counted.in_use /\ counted.requests[k] <= Limit[k]

\* Mutant of RecordFailure: the deadline does not wrap with the clock.
RecordFailureUnwrapped(g, now) ==
    IF g.in_use /\ g.auth_failures + 1 >= FailsToBlock
    THEN [g EXCEPT !.auth_failures = 0, !.blocked_until = now + BlockMs]
    ELSE [g EXCEPT !.auth_failures = IF g.in_use THEN @ + 1 ELSE @]

RecordFailure(g, now) ==
    IF ~g.in_use
    THEN g
    ELSE IF g.auth_failures + 1 >= FailsToBlock
         THEN [g EXCEPT !.auth_failures = 0,
                        !.blocked_until = (now + BlockMs) % Modulus]
         ELSE [g EXCEPT !.auth_failures = @ + 1]

\* Mutant of RecordSuccess: the failures before it still count.
RecordSuccessOnly(g) == g

RecordSuccess(g) == [g EXCEPT !.auth_failures = 0]
=============================================================================
