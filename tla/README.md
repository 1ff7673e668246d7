# Verification of the post-quantum IoT link

TLA+ models of this repository: the firmware of the two boards, the **receiver**
(the gateway) and the **sender**, the link between them, the C routines that
both run, and the programs on the PC that listen to them; the TLC
configurations that check the models, and TLAPS proofs about them.
All paths below are relative to the root of the repository.

## 1. The system

| Part | Where | State it keeps | Operations |
|---|---|---|---|
| Gateway task | `Receiver/Receiver/main.cpp` `task_gateway` | key store (`g_store`), nonce ring, guard table | boot; per datagram: parse, guard, `pqkem-meta`, `pqkem-pk`, `pqkem-data` |
| Key store | same file, `gw_store_*` | the blob in EasyFlash | load, save with read-back, init |
| Source guard | same file, `peer_guard_*` | one record per source: window start, three counters, failures, deadline of a block | get, roll, count, record failure / success, is blocked |
| Sender task | `sender/sender/main.cpp` `task_sender` | `SenderStateStore` in RAM and flash, gateway address, failures in a row, the request that is out | resolve, refresh, send cycle (key, metadata, message), retry |
| CoAP codec | `*/coap_minimal.c` | none between calls | parse, build |
| ML-KEM-512, SHA-3 | `*/kyber/kyber512_ref`, `pqkem_kem.c` | keypair and secret buffers | keypair, encapsulate, decapsulate; absorb, squeeze, permute |
| Telemetry client | `*/include/splunk_hec.h` | host, ready flag, failure count | discover, send event |
| Discovery server | `integrations/.../splunk/splunk_discovery_server.py` | socket, address read at the start | answer, announce |
| Serial bridge | `integrations/.../splunk/serial_to_hec.py` | batch | read, parse, post |
| Dashboard | `dashboard/` | the overview on the page; searches under way | poll, search |
| Serial monitor | `*/tools/monitor/monitor.py` | output buffer, pipe to Wireshark | type, write, read, pass packets on |
| Wi-Fi bring-up, display, LED, I2C, sniffer | `wifi.cpp`, `ssd1306.c`, `sniffer` | a ready flag; none | |
| Governance harness, provisioning, build | `integrations/.../governance`, `host-tools`, `tools` | files | run-once scripts |

**How they interact.** The sender broadcasts a CoAP request to find the
gateway, then repeats a cycle: GET `pqkem-pk`, compare the fingerprint with the
provisioned one, GET `pqkem-meta`, encapsulate and seal a message with the next
sequence number (saved to flash before it is sent), POST `pqkem-data`, wait for
`OK`. Each request is sent up to three times with six seconds for an answer;
three failed cycles in a row refresh the address. The gateway handles one
datagram at a time: it finds the guard of the source, refuses blocked sources,
counts the request against a window, and for a POST checks form, identity,
sequence number, nonce and tag in a fixed order. A failed check is a failure on
the guard; four in a row without an accepted message block the source for 30
seconds. An accepted message moves the sequence number, enters the nonce ring
and is counted against the key's maximum; the store is saved, and the sender is
told `OK` whether or not that worked. Both boards report to Splunk from inside
these loops, after finding the PC by a discovery broadcast; what they print to
the serial port reaches Splunk through the bridge, and the dashboard searches it.

**What is hard about it.** A clock of 32 bits that wraps; two flash stores that
may fail between any two steps; an unreliable network under a retry protocol
whose retries look like replays; restarts of either board that forget part of
the state that the other relies on; telemetry that blocks the protocol loop; a
parser with 8-bit arithmetic over bytes from the network; modular arithmetic in
16-bit integers; overlapping polls, and threads that share a buffer without a
lock. `PROJECT.json` lists these under `hazards`, each at its line.

**What makes each part correct.**
*Guard*: what a window may serve, that a block lasts and ends, that a refused
source is served again. *Gateway*: no message twice between two boots, no nonce
twice within the ring, a message count that really bounds the use of a keypair.
*Key store*: what a boot loads was really stored. *Sender*: no sequence number
twice while its flash works, never without an address it could have had.
*Link*: the sender holds for delivered only what the gateway took; loss alone
never gets a sender blocked; a gateway that moved is found again. *Telemetry*:
few events lost in a row, and an end to losing them. *Routines*: bounds,
agreement of writer and reader, of both ends of a key exchange, of a routine and
its definition. *Host*: order and completeness of what is indexed and shown.

## 2. The modules

| Module | Models | Uses |
|---|---|---|
| `GuardRecord` | the `peer_guard_*` functions as operators on a record and a clock reading | |
| `PeerGuard` | the guards over time, with a clock that wraps | extends `GuardRecord` |
| `Gateway` | `task_gateway`, replay state, power, flash as one value | extends `GuardRecord` |
| `Sender` | `task_sender` | |
| `Delivery` | what the link promises (abstract specification) | |
| `SecureLink` | both boards and the network | instances of `Sender`, `Gateway`, `Delivery` |
| `GatewayStore` | `gw_store_*` call by call | instance of `KeyRegister` |
| `KeyRegister` | what `Gateway` assumes of the key store (abstract specification) | |
| `Telemetry` | `splunk_discover`, `splunk_send_event` and the PC they report to | |
| `GatewayBoard` | key store and telemetry inside one task | instances of both |
| `AnswerTime` | how long reports hold an answer back | instance of `Telemetry` |
| `CoapFormat`, `CoapParse`, `CoapBuild`, `CoapCodec` | their common numbers; `coap_parse` pass by pass, `coap_build_simple` segment by segment, the one reading the other | `CoapCodec` extends the others |
| `KyberArith`, `KyberPoly`, `MlKem` | the reference code of ML-KEM-512 from reductions to decapsulation | each extends the one before |
| `RejUniform` | `gen_matrix` / `rej_uniform` over a stream of blocks | |
| `Sponge`, `KeccakF` | absorbing and squeezing in `fips202.c`; its permutation | |
| `SerialBridge`, `Dashboard`, `DiscoveryServer`, `SerialMonitor` | the programs on the PC | |
| `Routines` | the C routines side by side, one per behaviour | instances of `CoapCodec`, `MlKem`, `KeccakF`, `Sponge`, `RejUniform` |
| `HostPrograms` | those programs, the bridge and the dashboard around one index | instances of the four |
| `MC*` | values of the constants for TLC | extend the module they are named after |
| `*Proofs` | theorems, see section 4 | extend the module they are named after (`LinkProofs`: `SecureLink`; `BoardProofs`: `GatewayBoard`; `HostProofs`: `HostPrograms`; `RoutineProofs`: `Routines`; `StoreProofs`: `GatewayStore`) |

### GuardRecord and PeerGuard
A guard is the record `PeerGuardState`; `guards[p]` is the slot that belongs to
the address `p`, `EmptySlot` a zeroed slot and also the `NULL` that
`peer_guard_get` returns when the table is full, since every function ignores
it. Times are numbers below `Modulus` (2^32 in the code); the difference of two
is taken modulo `Modulus`, and the signed comparison of `peer_guard_is_blocked`
is `PositiveSigned`. A counter is kept only up to one above its limit, which is
all the comparison can tell. The three kinds of request share one window start
and may be configured with different windows, `WindowMs[k]`. `PeerGuard` has one
action per path that a datagram takes through the guard, the two included that only
find the slot (an unknown URI, `NotFound`) or only count the request (a POST to a
spent key, `PostToSpentKey`), and leaves open whether a POST passes the checks.
True ages, which the code cannot measure, are history
variables that stop at twice the range of the clock; `last` has the ages of the
requests of each kind served last, which `BurstBound` counts.

### Gateway
One action per outcome of the loop body, because a datagram is handled to its
end before the next one is read: `Malformed`, `Refused` (blocked), `BadHeader`,
`NotFound`, `Throttled`, `ServeMeta`, `ServePk`, `PostToSpentKey`,
`PostRejected` (the first of the checks in `CheckOrder` that fails decides the
answer) and `PostAccepted`. `MetaUpdate` is `gw_meta_update_runtime` and is part
of every action behind the header check. `MaySave` is a save whose result the
code ignores: the flash holds the new store or the old one. `PowerCycle` may
happen between any two actions; a cut inside the loop body is a step whose save
did not reach the flash, followed by `PowerCycle`. An answer that is on its way when
the power is cut stays on its way (`reply`). `FlashLost` is a blob that
does not pass `gw_store_load`, after which the boot makes a new keypair.
Keypairs are numbers; a message sealed for another keypair fails at
`AUTH_FAIL`, as implicit rejection of ML-KEM makes it. The histories `accepted`,
`uses` and `forgotten` say what was accepted since power-on, how often each
keypair was used, and how much of its count power cuts dropped.

### Sender
`step` is where the task is: `off`, waiting for an answer to the broadcast
(`resolve`, `refresh`), pausing between cycles (`idle`), waiting for the answer
to the request of the cycle (`pk`, `meta`, `data`), or `stopped` (task
deleted). An answer is taken only if its message id is that of the request and
it comes from the gateway's address (`Matches`). `CycleFails` is the tail that
every `return false` of `send_protected_message` leads to. With `FlashFaults` a
save may leave the old state, the new one or an erased sector; a power cut
between erase and write is the last of these followed by `PowerCut`. Message
ids are drawn fresh among those under way, which abstracts the 16-bit counter.
The configuration modelled is the default: STRICT fingerprint check, broadcast
discovery, no static address.

### SecureLink and Delivery
`outbox` holds the datagrams under way to the gateway, in any order of arrival
when there are two; `reply` is the one answer under way back, which a newer
answer displaces. Anything may be lost. What a board sent before its power was
cut is answered to a socket that is gone (id 0). The gateway may come back under
another address (`Move`). The guard's time advances with the sender's steps so
that each request meets a new rate window: one sender asks for a handful of
things per second where 8 to 16 are allowed, and `PeerGuard` is about limits.
`Delivery` says: messages are issued one after another; the gateway takes each
at most once for as long as it runs; the sender confirms only what was taken.
`KeepsPromise` is the refinement, with `taken` read off the gateway's `accepted`.

### GatewayStore and KeyRegister
`pc` is the next call of the task: opening EasyFlash, loading, making a keypair,
and for a save the calls `Open`, `Set`, `Commit`, `Verify` for whichever of the
three callers is saving (`caller`). A blob has its length (`whole`), its header
(`head`), a body and a checksum; `Readable` is what `gw_store_load` accepts, and
`Intact` what the read-back of `gw_store_save` looks at: the length and the blob's own
checksum, not whether it is the blob just written. Each call of EasyFlash may fail.
A write may leave the new blob, a spoilt one or the old one, and drop what it was
to write without an error; with an error, it may leave any of the three as well.
`SaveTellsTruth` says what follows: no torn or spoilt write passes for a success,
and a dropped one does only where an older blob lies intact. (The checksum stands for
what it was computed of; the model has no collisions.) `Decay` is a flash that spoils a
blob at rest; `PowerCut` may come between any two calls. `KeyRegister` is what
`Gateway`'s `MaySave` rests on: a cell in flash that holds a value the store had at
some time, whole, or nothing. Its `Trust` is a new keypair of which the write was
dropped; the task then runs on a keypair that its flash does not hold. `Gateway` has
no such boot: it assumes that the first write of a keypair is not dropped silently.

### Telemetry, GatewayBoard, AnswerTime
`call` is where `splunk_send_event` is: idle, discovering, posting for the first
time or again after rediscovery. `at` is the PC's address, `advertised` the one
its discovery server gives out (read once, at its start), `answering` and
`collecting` whether discovery and event collector run. `fallback` is the one
difference between the boards: a sender whose discovery is not answered takes
its Wi-Fi router for the host. `GatewayBoard` runs key store and telemetry as
the one task runs them: an event is never reported inside a save, and a power
cut ends both. `AnswerTime` adds the seconds that discovery and connection wait,
and how many reports each handler makes before its answer.

### CoAP
`CoapParse` has an action for each pass of the option loop: `offset`, the last
option number, the path gathered so far and the furthest byte looked at
(`touched`). Option deltas and lengths are kept in 8 bits, as the code keeps
them. `CoapBuild` writes a path given by its segments, empty ones included, and a
payload into a buffer that may be too small, one action for each pass of the
builder's loop; `options` is history, what each option written is and where it
ends. In `CoapCodec` either what was written arrives as a datagram or an arbitrary
one does, and is parsed. Of the header only the token's length is kept; a segment is
one of less than 65536 bytes, as its `opt_len` can say.

### ML-KEM and SHA-3
`KyberArith` and `KyberPoly` translate `reduce.c`, `ntt.c`, `poly.c`,
`polyvec.c`, `cbd.c` with 16-bit wrapping, so that a missing reduction shows.
`MlKem` runs keypair, encapsulation and decapsulation as jobs through the stages
of `indcpa.c` and `kem.c`; the ciphertext may be changed on the way and the
gateway may have another keypair by then. Hash values are terms; the streams
that SHAKE would give are parameters. `RejUniform` samples a polynomial from
blocks, a squeeze at a time. `Sponge` takes an input in any division into calls
and gives the output in any division; the permutation is symbolic, so two states
are equal only when the same bytes went to the same places. `KeccakF` computes
the permutation of the C code, two rounds per pass with its renamed lanes,
beside the definition in FIPS 202, where a state is a function of x, then of y.
That the table of round constants is the output of the standard's shift register
is part of `KeccakAssumption`, which TLC computes. The boards have identical copies of these
files; the map names the copy of the board that runs the function.

### The programs on the PC
`SerialBridge` numbers the lines it reads, gathers events and posts a batch (of
which the size and the events are kept); a post that fails ends the program.

`Dashboard` polls every five seconds; polls overlap, each makes its searches one
after the other, and its answer is shown when it arrives, also after that of a later
poll (`CatchesUp` says that the page gets over it). A search fails while Splunk is
down and may fail, by a timeout or an HTTP error, while it is up. A backend that stops
ends the requests under way, which the page then finds lost; it may come up again.

`DiscoveryServer` has several servers that hear each other's broadcasts. The
broadcasts are guarded in the code and may reach nobody; the answer to a board is not,
so that an error there ends the server, its socket and its thread (`End`). An
`Advertise` is one `sendto` of the thread's two.

`SerialMonitor` has the steps of `readSerial` between which the window may run:
testing the buffer, taking it, clearing it, writing, reading; and the pipe that
a Wireshark opens and leaves. A device that is lost ends the process, at a write or a
read. A pipe that is full does not: its `EAGAIN` is ignored, and the packets that did
not fit stay in the writer's buffer (`unflushed`), to go out with the next one. To open,
write and flush is one step, because it is the flush that meets the reader.

## 3. The runs

| Run | Module | Shows | Bounds |
|---|---|---|---|
| `guard` | `MCPeerGuard` | `BurstBound`, `NoStaleThrottle`, `BlockHolds`, `BlockExpires`, `RefusalIsTemporary` | clock of 8, windows of 2, block of 3, two failures block; limits 2 and 1; one source |
| `gateway` | `MCGateway` | `AtMostOncePerBoot`, `NonceWindow`, `KeyAccount`, `KeyBudget`, `SpentKeyStaysSpent` | all paths of the loop; 3 sequence numbers x 3 nonces and what fails each check; ring of 2, maximum 3, two keypairs, one message forgotten, two clock readings, blocked at the first failure |
| `link_loss` | `MCSecureLink` | `NeverBlocked`, `ReplayMeansTaken` | two messages, three attempts and blocked at the fourth failure, as in the code; one datagram under way, power cuts of both boards at any time, two keypairs |
| `link_late` | `MCSecureLink` | `KeepsPromise` | two messages, two datagrams under way in any order |
| `link_move` | `MCSecureLink` | `GatewayIsFound` under fairness | two addresses, one move, failing saves |
| `board` | `GatewayBoard` | `SaveTellsTruth`, `ListensWithStoredKey`, `KeepsRegister`, `LossBound`, `TelemetryResumes` | two keypairs, one counted message, two tries, two failures, one move of the PC |
| `routines` | `MCRoutines` | `InBounds`, `ReadsWhatWasWritten`, `EveryOptionAdvances`; `SecretsAgree`, `RejectsImplicitly`, `Reduced`; `OutputIsTheStream`; `PermutesAsDefined`; `SamplesInOrder` | see below |
| `host` | `HostPrograms` | `IndexedInOrder`, `PartsAreOrdered`, `CatchesUp`; `NoEcho`, `FallsSilent`; `WrittenInOrder`, `CaptureIsReadable`, `ThreadEnds` | five lines for the bridge alone, two with a page, batches of two; two polls at once of two searches, two troubles (stops, starts, failing searches); two servers with two adverts each, two requests; three texts, three packets, two readers, one unflushed packet |
| `gateway_budget` | `MCGateway` | `KeyMaximum` fails | messages only |
| `link_refresh` | `MCSecureLink` | `FallbackKept` fails | one keypair |
| `board_keep` | `GatewayBoard` | `ExistingKeyKept` fails | as `board` |
| `answer_time` | `AnswerTime` | `AnsweredInTime` fails | three tries of three seconds, as in the code |

The last four state what the repository's documents or comments say and find
the code does otherwise:

* **A keypair outlives its maximum.** The result of the save after an accepted
  message is ignored (`Receiver/Receiver/main.cpp:1090`); a failed save and a
  power cut give the key its messages back. The risk register lists key
  exhaustion as mitigated. `KeyBudget` says exactly how many messages it costs.
* **A refresh drops its own fallback.** `last_gateway_ip` is cleared before the
  resolution that would fall back on it (`sender/sender/main.cpp:849`).
* **A sound keypair is replaced.** Any failure of `gw_store_load`, one of
  EasyFlash included, counts as "no keypair" and a new one overwrites the stored
  one (`Receiver/Receiver/main.cpp:537`), where the Readme says it is loaded.
* **Telemetry blocks the loop.** `splunk_hec.h` calls itself non-blocking for
  the CoAP loop; the handlers report before they answer
  (`Receiver/Receiver/main.cpp:782`), and a discovery that nobody answers takes
  longer than the sender waits.

Observations that have no run of their own. A block comes back: `blocked_until_ms`
is never cleared and is compared as a signed difference, so 2^31 ms after it
ended the source is refused again until the clock reaches the old deadline
(`BlockExpires` is stated up to there). A full guard table refuses every further
source for good, since slots are never given back. A fixed window serves two
bursts back to back (`BurstBound` is twice the limit). A message whose `OK` was
lost is taken again by a gateway that restarted in between, which is why
`Delivery` promises at most once per run of the gateway only. A sender whose
first discovery is lost and that has no saved address deletes its task; one that
lost its flash starts at 1 and is refused by a gateway that kept running. A
discovery server ends when its answer to a board cannot be sent. A PC that changes
its address under a running discovery server is advertised under the old one until
the server is started again, since the server reads the address once
(`splunk_discovery_server.py:68`), although `splunk_hec.h:309-310` has rediscovery
"handle IP changes" (`HandlesAddressChange` in `Telemetry` is the statement that fails
under its `FairSpec`); hence the premise `advertised = at` of `LossBound` and
`TelemetryResumes`, which say nothing about that time. CoAP option
deltas and lengths above 255 come out truncated to 8 bits, within bounds but not
as they were written. A text typed into the serial monitor while the thread
clears the buffer is lost.

**Why the bounds are enough.** The guard's functions only compare differences of
times with constants, so a clock of 8 has every order of window, block, half
range and wrap that 2^32 has; the proofs do away with that bound for all but
liveness. Two messages suffice for the link because each check relates a message
to the last accepted one; attempts and the threshold of failures are the code's.
One datagram is under way in `link_loss`: with three attempts a late copy of the
message before is the most that can still arrive, and `SenderIsNeverBlocked` says
for any number of them what the threshold has to be. `Gateway`'s clock is bounded by `Horizon`, short of
its wrap, because `PeerGuard` has the wrap. `Tries` and `MaxFails` of two keep
the order of discovery, failures and moves; their values matter only to
`AnswerTime`, which has the code's.
*Routines*: `CoapParse` gets every datagram of up to four bytes over ten byte
values, at least one for each way in which the parser reads a nibble, a marker
or a length, with three token lengths, and messages of two or three segments around
every length that is encoded in its own way (0, 1, 12 to 16, 30 to 32, 255, 269),
with room that suffices and room that does not.
`MlKem` keeps n = 256, q = 3329 and the parameter set, so that all wrapping and
rounding is real; there are two keypairs, three messages (all zero, all one,
mixed) and one changed byte in each part of the ciphertext: a sample, not all
inputs. `Sponge` has blocks of 4 and up to 9 bytes in and out: empty, partial,
full and several blocks, in every division. `KeccakF` runs the full permutation
on three states. `RejUniform` needs 4 coefficients, from two blocks at once and
then one at a time, of candidates on both sides of q.

**Fairness.** `guard`: time passes (weak), and a source that keeps asking asks
also when it would be served (strong, per request kind). `link_move`: waits of
the sender end (weak; they are timeouts and delays of the scheduler), and of the
broadcasts sent again and again one gets through in time and so does an answer
(strong; a network that loses every one of them owes nothing). `board`: the task
goes on with its store (weak), and reports between saves (strong, since saves
and events hold each other up). `host`: the page's timer, each of its requests,
each server and the monitor's thread go on (weak). No fairness on power, loss,
moves, typing or arrivals: the premises of `GatewayIsFound`, `TelemetryResumes`
and `CatchesUp` say what has to stay up.

`ThreadEnds` needs no more than that the thread goes on: closing the window is its
premise.

Deadlock is checked in every run but `routines` and `host`, whose routines and
bounded inputs end.

## 4. The proofs

Each theorem is about the specification of the component's own module, for every
value of its constants under the assumptions named, which are about constants
only.

| Module | Theorems | Assumptions |
|---|---|---|
| `GatewayProofs` | `GatewayTypes`, `AtMostOnce`, `NoncesFresh`, `KeyAccounting`, `KeyBudgetHolds`, `SpentKeys` | `GuardAssumption`, `GatewayAssumption` |
| `LinkProofs` | `LinkTypes`; `LinkKeepsPromise`: `SecureLink` implements `Delivery` | `LinkAssumption` |
| | `ReplaysWereTaken` | and saves of the sender that work |
| | `SenderIsNeverBlocked` | and `Capacity + MaxAttempts <= FailsToBlock`: what may be under way and the attempts of a message are together no more than the failures that block |
| `PeerGuardProofs` | `GuardTypes`, `NoThrottleByOldCounts` | `GuardAssumption`; blocks shorter than the clock's range (30 s of 2^32 ms) |
| | `BurstsAreBounded` | and the same window for each kind of request, as the two macros of the code have it by default |
| | `BlocksHold`, `BlocksExpire` | and blocks shorter than half the clock's range |
| `StoreProofs` | `SavesTellTruth`, `ListensWithStored`, `StoreIsRegister`: `GatewayStore` implements `KeyRegister` | `StoreAssumption` |
| `TelemetryProofs` | `LossIsBounded` | `TelemetryAssumption` |
| `BoardProofs` | `BoardTypes`, `BoardSavesTellTruth`, `BoardListensWithStored`, `BoardKeepsRegister`, `BoardLossIsBounded` | `BoardAssumption` |
| `HostProofs` | `EventsIndexedInOrder`, `OverviewPartsAreOrdered`, `AnswersDoNotEcho`, `TextsInOrder`, `CapturesAreReadable` | `HostAssumption` |
| `RoutineProofs` | `CoapInBounds`, `CoapAdvances`, `TextsAreRead`, `MatrixIsSampled`, `OutputIsDetermined`, `RoundsAreThoseDefined` | `RoutineAssumption` |
| | `NttOfInvntt` | none but on its argument: coefficients up to 16000 |
| | `SecretsBind`, `SecretsAreOfCiphertexts`, `SecretsAgreeIfDecrypted`, `SecretsFollow` | hash values that are terms |
| | `CoefficientsAreReduced`, `PackingGivesBytes` | and `SamplersTyped`: the streams give polynomials of integers and 192 bytes, and a changed ciphertext is one of bytes. It quantifies over all seeds, so that TLC cannot evaluate it as an assumption of the module |
| | `DecryptsIfQuiet`, `SecretsAgreeIffQuiet` | `SamplersTyped` and `MatrixReduced`: the samples of the matrix are below q, as `rej_uniform` makes them |
| | `SecretsAgreeIfQuiet` | and a tolerable noise (`Quiet`) for all coins and messages of the instance |
| | `RejectsIfNeverReencrypted` | `NeverReencrypted`: no ciphertext that was changed, or made for another public key, is the encryption of what it is decrypted to |

* **Gateway.** `AtMostOncePerBoot` and `NonceWindow` are not inductive.
  `ReplayInv` adds that `last_sender_counter` is at least every accepted sequence
  number while the gateway listens, and what the ring holds: the slot `j` places
  behind `cache_next` holds the nonce accepted `j` messages ago. `AccountInv` adds
  that the count in flash never exceeds the one in RAM, that both belong to the
  same keypair, and that keypairs not yet made are unused. `ReceiveEffect` reduces
  the ten actions of the loop to two cases: nothing that the invariants read has
  changed but the key's status, or `PostAccepted`.
* **Link.** `LinkInv` says that only the request that is out bears its message id
  (`ExchangeInv`), so that an `OK` that matches can only be the answer of a gateway
  that took this message; that a message has one sequence number wherever a copy of
  it is (`MessageInv`); and that what the gateway took is not above its last counter
  (`AcceptedInv`), so that a copy which passes the sequence check is of a message not
  yet taken. `SenderEffect` and `ReceiveEffect` reduce the actions of the boards to
  what these parts can tell: the sender is quiet, resends, asks, seals a new message
  or loses power; the gateway takes a datagram or declines it. `FreshIdEffect` counts
  the ids in use to show that a fresh one exists. That the sender is never blocked
  rests on a count (`FailureInv`): the failures recorded, the POSTs under way that the
  gateway will refuse (`Stale`) and the copies of such a POST that the sender still owes
  (`Owed`) stay below `Capacity + MaxAttempts`; a message that is taken clears the
  first, a fresh one has none of the last. The types of the gateway are those of
  `GatewayProofs`, taken over through an instance.
* **Guard.** `ClockInv` relates each stored time to the true age it stands for,
  modulo the clock's range (`SameReading`), as long as the age is below twice that
  range. The rest is arithmetic of residues. `BurstInv` relates the ages in `last` to
  the counter: the requests that the counter does not count were served before the
  window began, and those beyond one limit more are too old to matter.
* **Key store.** `StoreInv` says what each step of a save has established, for each
  of its callers, and that the read-back tells a torn or spoilt write; every call then
  maps to a step of the register or to none.
* **Telemetry.** `LossInv` counts a run of lost events against the client's failures,
  and one more for a discovery that began before the PC came up.
* **Board.** Each step of `GatewayBoard` is a step of `GatewayStore` or a stutter,
  and the same for `Telemetry` (`BoardIsStore`, `BoardIsTelemetry`), so the theorems
  of the two hold of the board. The prover sees the instance with the proofs and
  the one of `GatewayBoard` as different definitions; the `Same...` lemmas equate them.
* **Host.** An invariant for each program, and a lemma that a step of another program
  leaves its variables alone. `BridgeInv`: what is indexed and the batch after it are
  all the events read, in order. `PageInv`: each poll has read its parts from an index
  that only grew. `DiscoveryInv` counts: the answers given and the requests that wait in
  the sockets of servers that still run are together no more than the servers times the
  requests of the boards. `TextInv` orders the
  text in the monitor's buffer, the one taken and those written, for each place where
  the thread can be; `CaptureInv`: no pipe is open exactly while a header is due, and a reader
  for whom none was opened has been given nothing.
* **CoAP.** `Parsing` is the types and the bounds themselves; an extension that fits
  ends within the datagram (`FitsWithin`). That texts are read as they were written
  is an induction over the options, done over time: `Building` says that the options
  written lie one behind the other (`Chain`), each with its delta, length and value
  where `IsOption` says, and the payload behind them (`Paid`); `Reading` that the parser
  stands behind some number of them with the beginning of their path (`Behind`).
  `OptionIsRead` takes it behind the next one, `CutExtends` shows that cutting the path
  at every segment and cutting it once come to the same, and where the options end
  there is the marker or nothing (`OptionsEnd`).
* **ML-KEM.** `KemInv` bounds the coefficients at every stage of keypair, encryption
  and decryption, through reductions, transforms and products, each of which has a
  lemma: what goes in below one bound comes out below another, and fits in 16 bits on
  the way. The exception is `barrett_reduce`: its product `t * q` may exceed 16 bits,
  and the result is right all the same, because what the product loses the difference
  that is taken of it loses again.
  `BindInv` says that each stage of an encryption has computed a part of one function
  of message and public key (`CiphertextOf`), at either board, and that a secret that was
  not rejected belongs to a message of which the ciphertext is that value. As the secret
  is a term that contains message and key, equal secrets mean equal ciphertexts
  (`SecretsBind`); and where decryption gives back the message, equal ciphertexts mean
  equal secrets (`SecretsAgreeIfDecrypted`).
* **ML-KEM, agreement.** When does decryption give back the message? The last third of
  `RoutineProofs` answers this for the code as it is, 16-bit wraps and roundings
  included, in five steps, all modulo q (`Cong`):
  1. each reduction keeps the residue (`barrett_reduce`) or divides it by 2^16
     (`montgomery_reduce`), and a wrap never loses one, by the bounds above;
  2. a layer of `ntt` undoes the layer of `invntt` of the same length, since the
     products of their zetas are -1; seven of them give `NttOfInvntt`. `ntt` of a sum
     is the sum (`NttSums`), so no inverse of `ntt` the other way round is needed;
  3. `poly_basemul_montgomery` is, up to that factor 2^16, the product of a commutative
     ring (`Ring`), so that the matrix, transposed for one board and not for the other,
     cancels (`MatrixCancels`);
  4. 12-bit packing returns what it was given modulo q (`PackingReturns`), though it
     maps negative coefficients up by q; hence decryption yields message and noise
     (`DecryptionNoise`), where `Noise` is written with what was sampled and what
     compression changed, and nothing else;
  5. a coefficient decodes to its bit if and only if its noise is near enough to 0
     (`BitReturns`: within 832, asymmetric by one for a bit that is one, because q is
     odd and `poly_tomsg` multiplies by a rounded reciprocal): `DecryptsIfQuiet`.

  `TraceInv` carries this to the behaviours: the keypair is one of coins, each stage of
  decapsulation is a function of ciphertext and secret key, and the message that is
  encrypted again is the one that was decrypted. From it follow `SecretsFollow`, without
  any condition, and the two properties under theirs. The conditions are about the
  values of the streams, which no proof can settle, and they are no stronger than needed:
  by `SecretsAgreeIffQuiet` and `SecretsFollow` an exchange of the run that violated
  them would violate `SecretsAgree` or `RejectsImplicitly`. TLC finds both true of the
  instance, so its noise is tolerable in each of the 256 coefficients of each exchange.
* **Sampling.** `SamplingInv`: what is left in the buffer is the end of the stream, in
  pairs, and while coefficients are missing there are as many of them as good candidates
  (`Good`) before it.
* **Sponge.** `SpongeInv`: the state is what the whole blocks of the padded input give,
  with the beginning of the next one added; while squeezing, the output and what is left
  of the block make a whole number of rates.
* **Permutation.** After every two rounds the lanes of the code are those of the
  definition (`KeccakInv`), from a lemma per lane of a round; the walk of the standard that gives rotations and places
  is computed step by step and proved equal to the table in the code (`Walk`).

What has no theorem, and why:

* `RefusalIsTemporary`, `GatewayIsFound`, `TelemetryResumes`, `CatchesUp`,
  `FallsSilent`, `ThreadEnds`: liveness, which needs `ENABLED` and leads-to under
  fairness, out of the prover's reach.
* `SecretsAgree` and `RejectsImplicitly` without a condition: they depend on the noise
  that is drawn and on the values of the streams (ML-KEM fails to decrypt for some, with
  a probability that the parameters make negligible), so no theorem for all of them is
  true. `SecretsAgreeIfQuiet` and `RejectsIfNeverReencrypted` prove them from the
  conditions that make them true; that the noise is tolerable with overwhelming
  probability is outside TLA+.
* The four properties that TLC finds violated.

## 5. Not modelled, and why

* Wi-Fi bring-up, display, LED and I2C drivers, sniffer: calls of vendor code in a
  row or pure output; of their state only a ready flag is used, once.
* The governance harness, provisioning and build tools: sequential scripts that keep
  no state between runs.
* AES-128-CCM and HKDF (mbedTLS): only whether a tag verifies matters to the models. The
  random number generator: `MlKem` takes any coins.
* The wrap of the 16-bit message id and of the 32-bit sequence number: neither is
  reached in the lifetime of a keypair, and a model would need them whole.
* The alternative configurations TOFU and static address.
* Further endpoints of the dashboard's backend: single searches without state.
* Code that no build file names: `sender/tools/main.cpp` (an older sender), the AVX2
  sources `KeccakP-1600-times4-SIMD256.c`, `fips202x4`, `rejsample`, `consts`, and
  `rng.c`, `PQCgenKAT_kem.c`, `test_*`. These, with the three identical copies of the
  reference code, are the larger part of the repository's lines of C, which is why a
  model of what runs covers a small share of them.

## 6. Plan

Done: guard, gateway, key store, sender, link, telemetry, codec, ML-KEM, SHA-3, and
the programs on the PC; proofs of the safety of all of them, each property that is
not about liveness included. Left: the TOFU configuration of the sender, whose first
key is saved.
