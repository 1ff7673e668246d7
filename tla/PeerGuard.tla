------------------------------ MODULE PeerGuard ------------------------------
(***************************************************************************)
(* The gateway's source guard in isolation, over a clock that wraps: what  *)
(* task_gateway does to the guard of the source of each datagram, with the *)
(* outcome of the parts that the guard does not decide (whether the keypair*)
(* is spent, whether a POST verifies) left open.  Three history variables  *)
(* measure true time, which the code's wrapped clock cannot.               *)
(***************************************************************************)
EXTENDS GuardRecord

CONSTANT Traffic    \* the classes of datagram that arrive in this instance

DatagramClasses == {"malformed", "bad_header", "other", "request", "post"}

ASSUME TrafficAssumption ==
    /\ Traffic \subseteq DatagramClasses
    /\ "post" \in Traffic => "data" \in Kinds

VARIABLES
    now,            \* monotonic_ms()
    guards,         \* g_peer_guards, by the address that owns the slot
    outcome,        \* what became of the last datagram of each source
    block_age,      \* true time since the guard last started a block
    window_age,     \* true time since the guard last started a window
    last            \* last[p][k][i]: age of the i-th last request served,
                    \* while less than the window

vars == <<now, guards, outcome, block_age, window_age, last>>

\* Ages stop growing here: far enough for every property to tell apart.
AgeCap == 2 * Modulus

\* One more than two windows admit.
Places(k) == 1..(2 * Limit[k] + 1)

Outcomes == {"none", "served", "limited", "blocked", "rejected"}

TypeOK ==
    /\ now \in Time
    /\ guards \in [Peers -> Guard]
    /\ outcome \in [Peers -> Outcomes]
    /\ block_age \in [Peers -> 0..AgeCap]
    /\ window_age \in [Peers -> 0..AgeCap]
    /\ \A p \in Peers, k \in Kinds : last[p][k] \in [Places(k) -> 0..WindowMs[k]]

Init ==
    /\ now = 0
    /\ guards = [p \in Peers |-> EmptySlot]
    /\ outcome = [p \in Peers |-> "none"]
    /\ block_age = [p \in Peers |-> AgeCap]
    /\ window_age = [p \in Peers |-> AgeCap]
    /\ last = [p \in Peers |-> [k \in Kinds |-> [i \in Places(k) |-> WindowMs[k]]]]

-----------------------------------------------------------------------------
Older(age) == IF age < AgeCap THEN age + 1 ELSE age

Tick ==
    /\ now' = (now + 1) % Modulus
    /\ block_age' = [p \in Peers |-> Older(block_age[p])]
    /\ window_age' = [p \in Peers |-> Older(window_age[p])]
    /\ last' = [p \in Peers |-> [k \in Kinds |-> [i \in Places(k) |->
                  IF last[p][k][i] < WindowMs[k] THEN last[p][k][i] + 1 ELSE WindowMs[k]]]]
    /\ UNCHANGED <<guards, outcome>>

\* The guard of p becomes g and p is told o; the ages follow the guard.
Settle(p, g, o) ==
    /\ guards' = [guards EXCEPT ![p] = g]
    /\ outcome' = [outcome EXCEPT ![p] = o]
    /\ window_age' = [window_age EXCEPT ![p] =
            IF g.window_start # guards[p].window_start \/ g.in_use # guards[p].in_use
            THEN 0 ELSE @]
    /\ UNCHANGED now

\* A failure is recorded on guard g of p: the one that completes
\* FailsToBlock of them starts a block.
Fail(p, g, o) ==
    /\ Settle(p, RecordFailure(g, now), o)
    /\ block_age' = [block_age EXCEPT ![p] =
            IF g.in_use /\ g.auth_failures + 1 >= FailsToBlock THEN 0 ELSE @]

\* coap_parse fails: a failure is recorded, blocked or not, and no reply sent.
Malformed(p) ==
    /\ "malformed" \in Traffic
    /\ Fail(p, GuardGet(guards, p, now), "rejected")
    /\ UNCHANGED last

\* Anything that parses while the source is blocked is refused unrecorded.
WhileBlocked(p) ==
    /\ Traffic \ {"malformed"} # {}
    /\ IsBlocked(guards[p], now)
    /\ Settle(p, guards[p], "blocked")
    /\ UNCHANGED <<block_age, last>>

BadHeader(p) ==
    /\ "bad_header" \in Traffic
    /\ ~IsBlocked(guards[p], now)
    /\ Fail(p, GuardGet(guards, p, now), "rejected")
    /\ UNCHANGED last

\* A code and path that the gateway does not serve: the source gets a slot, and
\* nothing is counted.
NotFound(p) ==
    /\ "other" \in Traffic
    /\ ~IsBlocked(guards[p], now)
    /\ Settle(p, GuardGet(guards, p, now), "rejected")
    /\ UNCHANGED <<block_age, last>>

Counted(p, k) == CountRequest(GuardGet(guards, p, now), k, now)

\* Only POST pqkem-data is counted as "data".
Arrives(k) == (IF k = "data" THEN "post" ELSE "request") \in Traffic

\* A request beyond the limit of its window is turned away.
Throttled(p, k) ==
    /\ Arrives(k)
    /\ ~IsBlocked(guards[p], now)
    /\ ~WithinLimit(Counted(p, k), k)
    /\ Settle(p, Counted(p, k), "limited")
    /\ UNCHANGED <<block_age, last>>

Admitted(p, k) ==
    /\ ~IsBlocked(guards[p], now)
    /\ WithinLimit(Counted(p, k), k)
    /\ last' = [last EXCEPT ![p][k] = [i \in Places(k) |->
                  IF i > 1 THEN @[i - 1] ELSE 0]]

\* A GET within the limit is served.
Served(p, k) ==
    /\ Arrives(k) /\ k # "data"
    /\ Admitted(p, k)
    /\ Settle(p, Counted(p, k), "served")
    /\ UNCHANGED block_age

\* A POST within the limit is refused unrecorded if the keypair is spent, or
\* fails one of the checks, or is accepted.
PostToSpentKey(p) ==
    /\ Arrives("data")
    /\ Admitted(p, "data")
    /\ Settle(p, Counted(p, "data"), "rejected")
    /\ UNCHANGED block_age

PostRejected(p) ==
    /\ Arrives("data")
    /\ Admitted(p, "data")
    /\ Fail(p, Counted(p, "data"), "rejected")

PostAccepted(p) ==
    /\ Arrives("data")
    /\ Admitted(p, "data")
    /\ Settle(p, RecordSuccess(Counted(p, "data")), "served")
    /\ UNCHANGED block_age

Receive(p) ==
    \/ Malformed(p)
    \/ WhileBlocked(p)
    \/ BadHeader(p)
    \/ NotFound(p)
    \/ PostToSpentKey(p)
    \/ PostRejected(p)
    \/ PostAccepted(p)
    \/ \E k \in Kinds : Throttled(p, k) \/ Served(p, k)

Next == Tick \/ \E p \in Peers : Receive(p)

Spec == Init /\ [][Next]_vars

\* The clock never stops, and a source that keeps asking does not ask only
\* at the moments when it is refused.
FairSpec ==
    /\ Spec
    /\ WF_vars(Tick)
    /\ \A p \in Peers, k \in Kinds : SF_vars(Served(p, k))

-----------------------------------------------------------------------------
(* Safety *)

\* A fixed window admits two bursts back to back, one at the end of a window
\* and one at the start of the next, and never more: at most twice the limit
\* within any WindowMs milliseconds (peer_guard_roll_window and
\* peer_guard_allow_counter): the one before that many is as old as that.
BurstBound ==
    \A p \in Peers, k \in Kinds : last[p][k][2 * Limit[k] + 1] >= WindowMs[k]

\* From the failure that blocks a source until BlockMs later, the source is
\* blocked, however the clock wraps meanwhile, unless the deadline came out
\* as 0, which peer_guard_is_blocked reads as "never blocked".
BlockHolds ==
    \A p \in Peers :
        block_age[p] < BlockMs =>
            IsBlocked(guards[p], now) \/ guards[p].blocked_until = 0

\* A block is over BlockMs after the last failure that renewed it, and stays
\* over while the signed difference can tell past from future: for half the
\* range of the clock.  (After that a block that was never cleared comes back.)
BlockExpires ==
    \A p \in Peers :
        (BlockMs <= block_age[p] /\ 2 * (block_age[p] - BlockMs) <= Modulus) =>
            ~IsBlocked(guards[p], now)

\* Counts of a finished window never turn a tracked source away: until the
\* clock comes round to the same reading, the first request after the window
\* finds a fresh one, whichever kind of request started the old one.
NoStaleThrottle ==
    \A p \in Peers, k \in Kinds :
        /\ guards[p].in_use
        /\ WindowMs[k] < window_age[p] /\ window_age[p] < Modulus
        /\ Limit[k] > 0
        => WithinLimit(Counted(p, k), k)

-----------------------------------------------------------------------------
(* Liveness *)

\* A source that was throttled or found itself blocked, keeps asking, and
\* sends no more garbage, which is recorded against it even while it is
\* blocked, is served again: neither its counters nor its block outlive their
\* time.  It has a slot of its own.
RefusalIsTemporary ==
    \A p \in Peers :
        <>[][~Malformed(p)]_vars =>
            (outcome[p] \in {"limited", "blocked"} ~> outcome[p] = "served")
=============================================================================
