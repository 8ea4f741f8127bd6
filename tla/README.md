# Verification of the RW612 EVSE firmware

TLA+ models, TLC runs and TLAPS proofs for the electric vehicle supply equipment
(EVSE) firmware in `src/RW612 EVSE`. The firmware charges one electric vehicle (EV)
over a J1772 / IEC 61851 outlet and reports to a central system (CSMS) over OCPP 2.
The build modelled here is the one of the repository: `ENABLE_OCPP 1`,
`ENABLE_J1772 1`, `ENABLE_ISO15118 0`, `ENABLE_OVERCURRENT_TEST` undefined, a fan
fitted (`ventilation_state` is not NULL).

## The system

Tasks on one Cortex-M33 core, highest priority first: metrology, then charging and
connectivity, then OCPP, then the C++ threads of libocpp (websocket client, receive,
deferred callbacks, timers).

| part | state | operations | talks to |
|---|---|---|---|
| J1772 stack (`charging_protocol/IEC61851.c`) | one static struct: state A, A2, ... D2, E, F; pilot seen; duty cycle; `isCharging`, `auth_needed`, `ready_to_charge`; limit; measurements; the contactor and the fan through the HAL | `Init`, `Loop`, `SetState`, `StopCharging`, `SetMaxCurrent`, duty cycle conversions | raises OCPP event bits, polls `EVSE_OCPP_GetAuthResponse`, reads pilot and meter |
| charging task (`EVSE_ChargingProtocol.c`) | event bits, tick delay, a copy of the vehicle data | loop: one pass, then wait up to 2 ms for events | runs the stack; called by the OCPP task |
| OCPP task (`EVSE_Ocpp.cpp`) | `EV_plugged_in`, `is_EV_authorized`, `session_started`, `last_auth_time`, connection state, reconnect counter, the `TransactionHandler` pointer, event bits, a binary semaphore | one `if` block per event bit in fixed order; reconnection while not connected | libocpp calls and callbacks; `EVSE_ChargingProtocol_StopCharging` |
| transaction handler (`transaction_handler.cpp/.hpp`) | six conditions, the transaction data pointer | `submit_event` gives START, STOP or no effect | owned by the OCPP task |
| libocpp: transactions (`ocpp/v2/functional_blocks/transaction.cpp`) | open transaction, `id_token_sent` | `on_transaction_started/finished`, `on_authorized` | pushes to the message queue; callbacks into `EVSE_Ocpp.cpp` |
| libocpp: message queue (`ocpp/common/message_queue.hpp`) | a deque of transaction messages, one of other messages, the message in flight, `paused`, `running`, three timers | push, the worker that sends, received answers and calls, retry, thinning of a full queue, pause and resume | four kinds of threads: worker, callers, receive thread, timer daemon |
| libocpp: websocket and connectivity manager (`websocket_libwebsockets.cpp`, `connectivity_manager.cpp`) | connection data, attempts, a client, a receive and a deferred-callback thread, `wants_to_be_connected`, the reconnect timer | start, close (interrupt and join), the callbacks of libwebsockets | tells the message queue and the OCPP task through deferred callbacks |
| connectivity task (`EVSE_Connectivity.c`) | network state, ping failures | WiFi, DHCP, SNTP, then `EVSE_OCPP_Init`, then a ping every second | network-down event to the OCPP task |
| metrology (`EVSE_Metrology.c`) | two sample buffers, indices, a queue of 3 | filled from an interrupt, processed by the task | telemetry event; read by the J1772 stack |
| pilot sampling (`ControlPilot_Process.c`, `EVSE_LowLevel_Handles.c`) | raw ADC value, debounce statics | ADC interrupt, classification | `read_control_pilot` of the HAL |

What is hard: event bits lose the order (and the number) of what they announce; bits
are dropped before `EVSE_OCPP_Init` and while the CSMS is away; the answer to an
authorization is a flag, a semaphore and an event written one after the other by a
low-priority thread while the charging task polls; the effect of some transaction
events is thrown away; a stop comes from another task between two passes; the stack
chains several state changes inside one pass, each with side effects; a message in
flight is ended by an answer, a timer or a failed send, whichever comes first; the
websocket's callbacks are deferred to a thread that runs after its state has moved on;
two match values of a running timer are moved one after the other. `PROJECT.json` lists each hazard with
its line and the properties about it.

## Modules

* `Iec61851` — the J1772 stack as operators on the value of `j1772_simulation`. One
  operator per C function; the cases of `SetState` are the `Enter...` operators, those
  of `Loop_EVSE` the `Handle...` operators, so a pass that calls `SetState` twice is a
  composition. Added fields: `contactor`, `fan` (what the HAL was told) and `raised`
  (event bits set by the pass). `pwm` is the duty cycle in per mil, rounded down.
  Energy, elapsed time and display timers are left out: no decision reads them. `StateInv`,
  at its end, is what the state of the struct says of everything else; both `J1772` and the
  proofs of `Evse` use it.
* `J1772` — the charging task over a free environment: `Pass`, `WaitEvent`, stops,
  limits and requests from other tasks, any movement of pilot and load, any answer.
* `EvSession` — the abstract promise: plugged, granted (once per session), powered; `J1772`
  implements it.
* `TransactionHandler` — conditions, start and stop points, `submit_event`. The station
  uses `{EVConnected, Authorized}` and `{PowerPathClosed}`; these sets are constants.
* `Ocpp` — the OCPP task as operators on its statics, its handler and libocpp's open
  transaction. `Serve...` is one `if` block of the loop.
* `TxLedger` — the abstract promise to the CSMS: a transaction is opened when none is
  open, reports an id token at most once, is ended; `Evse` implements it.
* `PaidSession` — the abstract promise of the whole station: the sessions of `EvSession`, in
  which no more grants are consumed than transactions were opened; `Evse` implements it. A
  grant is an "Accept" that the stack consumed, not one given for the EV at the outlet: an
  answer its EV did not wait for is taken by the next. The state is the contactor, the counts
  of transactions and grants, and the history variable `session` (plugged, granted) that
  `Evse` keeps for it.
* `Evse` — the composition: charging task, OCPP task (one step per block), the callback of
  the accepted BootNotification, the answer callback statement by statement, remote start
  and stop, the websocket (connect, give
  up after its own retries, server loss with internal retry, requested close), the
  reconnect timer, and the network-down event.
* `Connectivity` — the connectivity task from the WiFi module to the ping, with the
  callback of the WiFi layer, which writes the state that the task's `switch` reads. `at`
  is the function the task is in, so the callback may come before, between and after
  its assignments. EdgeLock states are not in this build.
* `Metrology` — the sampling interrupt, the two buffers, the queue and the metrology
  task. Samples are abstracted to whether those of a buffer are consecutive (`run`).
* `ControlPilot` — the PWM on the pilot line, the interrupt that samples the line once
  per cycle, the classification by voltage bands and the debounce. The two match values
  (`pulse`, `trigger`) are two steps; numbers keep their 16 bits.
* `MessageQueue` — libocpp's queue: both deques, the worker, the message in flight,
  received answers, retries, thinning, pause and resume, the dispatcher's rule for
  messages before acceptance, and the BootNotification that opens the queue. The deque of
  transaction messages is a set of records with places; the other one a sequence.
* `Websocket` — the websocket as operators on its connection data, its threads and the
  deferred callbacks.
* `Network` — the composition `Connectivity` + the connection part of `Ocpp` +
  `Websocket` + the connectivity manager and its timer: the OCPP task waits in a join
  while the other threads go on.
* `Iec61851_proofs`, `J1772_proofs`, `Evse_proofs`, `Metrology_proofs`,
  `ControlPilot_proofs`, `MessageQueue_proofs`, `Connectivity_proofs`, `Network_proofs` —
  the theorems and the lemmas they rest on.

Atomicity. The charging task outranks the OCPP task and the libocpp threads on one
core, so a pass is one step and nothing else changes the struct during it. A pass may
come between any two blocks of the OCPP task, and between any two statements of a
callback. Inside one block of the OCPP task no step of the models can be separated
that another task could tell apart, except the libocpp calls a block makes, which are
taken with it. The sampling interrupt is atomic for the metrology task, and
`Metering_CleanEverything` for the interrupt (it is a critical section). In
`MessageQueue` a critical section under `message_mutex` is a step, except where the
mutex is held across a send, or where the timer daemon, which outranks all, can come
between. In `Network` a callback of libwebsockets is a step: while the client thread
lives the owner changes nothing of its data but `running`.

External code: the EV (pilot, load), the CSMS (answers, remote requests) and
libwebsockets (which callback comes when).

## Runs

| run | bounds | shows |
|---|---|---|
| `j1772` | limits 25 A (the default) and 90 A (which has no duty cycle), loads {0, 16} A around the 1 A threshold; no bound on steps | type, `PowerOnlyWhenGranted`, `PilotMatchesState`, `ReportMatchesPower`, `VentilatedPower`; refinement of `EvSession`; an unplugged pilot ends in A, a fault pilot with the power off |
| `j1772_stop` | as `j1772` | a disagreement (below) |
| `evse` | 4 pilot moves, 1 loss, 1 remote request, 1 reconnection before the halt | agreement of statics, handler and libocpp; no grant used twice; refinement of `TxLedger` and of `PaidSession` (no energy without a consumed grant, no more grants than transactions); a stop finds its transaction data unless the transaction was ended without an acceptance; 2,090,141 states |
| `evse_live` | pilot {B, C}, 2 moves, 1 loss, 2 reconnections | the station gives up when the server stays away, unless it takes itself for connected (`Deaf`, below); an EV that arrives while connected is granted |
| `evse_halt` | as `evse` | a disagreement (below) |
| `connectivity` | 2 attempts of SNTP, 2 lost pings before the limit, 3 link events, 1 ping not sent | the task never meets a state without a case, OCPP starts with the time known, a lasting outage is reported to OCPP again and again unless the task is in an error loop |
| `connectivity_link` | as `connectivity` | a disagreement (below) |
| `metrology` | 3 samples per buffer, the queue of 3, averages every 2 buffers, 2 wrong CRCs | no buffer in use is forgotten, computations are over unbroken runs of samples, the averages are read for ever |
| `control_pilot` | period 15999, duty cycles {0, 100, 267, 960, 1000} per mil, codes of A, B and C, one between the bands and one that overflows; no bound on steps; 361,675 states | samples are taken in the high part, a change takes three valid readings, a line that settles is what the stack is told |
| `message_queue` | 2 attempts, threshold 2, four transaction messages (security event, two updates, an end); 304,722 states | order, no loss of a message that matters, a message in flight is always watched, one BootNotification, promises set once, every transaction message is delivered or given up |
| `message_queue_boot` | 3 attempts, threshold 3, the security event alone | a disagreement (below) |
| `network` | 1 attempt of SNTP, no lost ping allowed, 2 link events, 1 connection attempt, 1 reconnection, 1 callback that waits when a connection is established; 200,445 states | a closed websocket has exactly one way back, the queue follows the websocket, a lost connection comes back or ends in the halt |

Why the bounds are enough: 4 pilot moves let an EV arrive, leave, and a second one
arrive and charge (the case of a stale answer, of a disconnection served late and of a
replug); one loss or network-down lets every event bit be dropped or served after the
loss; one remote request meets every state of the session; a limit of 1 or 2
reconnections has the attempt, the reset by a connection and the halt. With a single
load and no over-current test the measuring interval and the hold-off of the stack
change nothing, so `Evse` fixes them. `J1772` needs no bound: its state is finite. Three
link events are a loss, a return and a loss, at every point of the task's work; the
counters of attempts and pings only have to be below, at and past their limits. In
`Metrology` a buffer has a first, a middle and a last sample, the queue has the length
of the code, and messages from before the cleaning fill it. In `ControlPilot` the
duty cycles are no high part, the shortest and longest advertised, the middle and no low
part; from one code to another every pair of bands and both kinds of invalid levels
occur. In `MessageQueue` a threshold of 2 is exceeded by the script alone, so thinning
meets every mix of events and updates, and with 2 attempts a message is retried and given
up. In `Network` each counter is below, at and past its limit, and two link events are a
loss and a return, at every point of a close or a start.

Fairness. `J1772`: a pass and the wait are weakly fair, since the wait has a timeout
and the task outranks all but the interrupt-driven metrology. `Evse`: in addition the
OCPP task, the callback thread, a connection attempt (it ends either way), a requested
close and the reconnect timer (its 30 s outlast a callback that waits or runs); and a CSMS
that has accepted the station answers while it stays connected, which is an assumption on
the CSMS. That it accepts the station is not assumed, as a BootNotification can be lost
(`BootIsPending`): it is a hypothesis of `EvIsGranted`. Nothing is assumed about the EV, losses or remote requests.
`Connectivity`: the task runs on; whether a join, a synchronization or a ping succeeds is
open. `Metrology`: the task runs on and samples keep coming (the front end free-runs at
3200 Hz); wrong CRCs are bounded, since a line on which every packet is wrong is not
metered. `ControlPilot`: the timer triggers samples, the task reads the pilot and finishes
an update it began. `MessageQueue`: weak fairness of the worker, the timer daemon, a
message becoming due and the handlers of received answers; strong fairness of the
heartbeat timer, which comes again and again and wakes the worker, and of the handler of
an error, whose mutex others take in between. `TxIsServed` further assumes that the
station stays connected and accepted and that no CALL of the CSMS holds the worker back.
`Network`: both tasks, and the threads with the timer; a handshake ends by the timeout of
libwebsockets. The 30 s of the reconnect timer outlast callbacks that are queued or
running, so it expires only when none is left.

## Disagreements found

* `StopHolds` — a stop takes the stack from C2 to C, but entering C makes it ready
  again, and the next pass closes the contactor.
* `NoSessionAfterHalt` — an answer not polled before its EV left stays in the
  semaphore; after the OCPP task has stopped "Subsequent charging sessions will not be
  authorized", yet the next EV is.
* `LossDisconnects` — the WiFi layer passes `true` for an established link to a callback
  that takes `true` for a lost one: a loss restarts DHCP and SNTP, which can end in the
  error loop, and a return is taken for a disconnection.
* `BootIsPending` — a BootNotification that cannot be sent, or that is at the front of a
  queue that is thinned, is dropped, although the code says it "will therefore be sent
  again"; nothing is left that would send another one.

Met while modelling, and without a run of their own:

* `doc/charnging.puml:59-60` leaves C2 and D2 on a pilot in E or F; the code only on F.
* `process_charging_ended` reads transaction data through a null pointer when the transaction
  of the session has ended before. Under the stop point `PowerPathClosed` it ends at the first
  event whose effect is looked at while the handler holds no acceptance: at the first stop
  after a refusal, so that the second stop reads null; or at a start that is served before the
  acceptance, so that the first stop does. `StopFindsData` states, and `Evse_proofs` proves, that
  there is no other way to get there.
* A refused id token does not end its transaction: the stop callback ignores the reason
  DeAuthorized and the effect of DEAUTHORIZED is dropped.
* The answer that accepts the BootNotification sets the connection state
  (`EVSE_Ocpp.cpp:787`); handled while the websocket is being closed it leaves the OCPP task
  taking itself for connected, with nothing under way that would tell it otherwise. `Deaf` in
  `Network` and in `Evse` is this state; the liveness properties of the runs name it as the
  exception.

## Proofs

`J1772_proofs` proves, for every set of current limits and loads, with and without a
fan and with and without the over-current test: type correctness, the four safety
invariants of the run `j1772`, and that the task implements `EvSession`. Assumption:
`Iec61851Assumption` (the constants have their types).

The invariants are not inductive: `PowerOnlyWhenGranted` needs to know that every state
in which the contactor may be closed next was entered in a granted session, and
`PilotMatchesState` is what makes A2, B, C and D be left the way the session needs.
`IInv` adds `SessionOfState`: A and the initial state are outside any session; A2, B2,
C, C2, D and D2 are inside a granted one with no authorization pending; B is inside a
session that is granted or waits for authorization. (E and F may be entered from
anywhere, keep the power off, and lead only to A.) One lemma per `Enter...` operator
says what it does to the struct, one per `Handle...` that it keeps the invariant, and
`LoopPreserves` combines them; they are in `Iec61851_proofs`, as the station needs them too.

Liveness is out of the provers' reach, but how many passes it takes is not. `SettlesSoon`: the
first pass that reads an EV gone or a pilot fault opens the contactor, the second at the
latest is in A or F, and nothing between passes undoes it. `StopIsServed`: while the EV asks
for energy a stop opens the contactor in the next pass, or in the one after when the stack
stood in B2 with the contactor closed (that it does not stay open is the disagreement
`StopHolds`). `OverCurrentIsServed`: a pass that finds a current above the limit leaves
the contactor open until the hold-off is over, except the pass out of B2.

`Evse_proofs` proves for every choice of start points, and of stop points other than
`DataSigned` alone, and every bound: `NoOrphanTransaction`, `OneGrantPerTransaction` and
the refinement of `TxLedger`. Assumptions: those of `Iec61851` and
`StopPointsAssumption`; with `DataSigned` as the only stop point the handler of an EV that
leaves would not end its transaction. The invariant `IInv` has two parts. `SessionInv`
relates the statics, the handler and libocpp between two blocks: a handler lives
exactly while the task takes an EV for plugged in, an open transaction has a handler
whose data says it was started, and transaction data exists only with a handler. `GrantInv`
counts: the grants consumed, the one in the semaphore, those in the callback and in
outstanding requests, and the one an open transaction may still ask for, are together
no more than the transactions opened; without the last term the invariant is not
inductive. `SubmitHandled`, `EffectHandled` and `ProcessHandled` say what
the handler's calls do, one lemma per block of the loop that the block keeps the
invariant and follows the ledger, `ServeMoves` combines them, and `NextKeeps` adds the
other actions.

From the same invariant follow `StationTypes` (types, with `LoopType` of `Iec61851_proofs`: a
pass keeps the type of the struct).

`StopsFindData` (`StopFindsData`) holds for all start points and for stop points among
`EVConnected`, `Authorized` and `PowerPathClosed` (the station has the last); with
`EnergyTransfer`, say, every stop ends the transaction, authorized or not. `DataInv` says that
a living handler knows of its EV (`Attached`) and that its data is gone only after a lapse,
which the history variable `lapsed` records. Block by block (`ServeKeepsData`) the data of a
living handler goes only with its transaction; as the handler is attached, the stop condition
was met for want of an acceptance.

`StationPays` is the refinement of `PaidSession`, and joins the two halves: `EnergyInv` is
`StateInv` of the struct with the history of the session, kept by every pass (`PassPays`, from
`LoopPreserves`), and `GrantInv` gives that a pass which consumes an acceptance finds a
transaction not yet used up. It does not say that the acceptance was for the EV that is
there (`NoSessionAfterHalt` is a case where it was not).

`Metrology_proofs` proves, for every buffer size, queue length and reading period, type
correctness and `WholeCycle`. Its `IInv` adds that a buffer in use is complete, and that
while a buffer is being filled it is not in use and nothing was lost since its last
sample. `NoLostBuffer` is proved for every queue of at least three messages, the length
in the code; the bound is sharp, as TLC finds a lost buffer with two. The argument (`QInv`):
the messages never exceed the buffers in use by more than two (`Slack`), as only the
cleaning makes stale ones; the buffers take turns in the queue but for at most one place
(`OneBreak`), and strictly so without slack (`Alternates`). So a message is dropped only from
a queue that already names both buffers.

`ControlPilot_proofs` proves for every period, set of duty cycles and set of codes: types
(no match value leaves the cycle, no sample its 16 bits), `SamplesHighPart`,
`ToldAfterThree`, and that a conversion that overflows is never taken for a state of the EV.
`LineIsToldSoon` is the quantitative side of `LineIsFollowed`: `Missing` counts the samples
and readings until the stack is told of a settled line; it is at most two samples and three
readings, no step adds to it, and each one waited for takes away from it.

`MessageQueue_proofs` proves for every script, limit of attempts and threshold up to 19:
types, `TxInOrder`, `EventsKept`, `FlightIsWatched`, `OneBoot` and `PromisesSetOnce`. They are
proved together, as each needs the others: `IInv` says of the deque of transaction messages that
it is in order and where it stands to what went out (`TxInv`), where a BootNotification and
promises already set may be in the other deque (`NormalInv`, `BootInv`, `PromiseInv`), what
the message in flight is while it is sent, waits or is answered (`FlightInv`, `SendInv`,
`AnswerInv`, `FlightIsWatched`), and what the flags and the place of the worker have to do
with each other (`Scalars`). `EventsKept` rests on what the thinning of a full queue, a
recursive function over its passes, leaves in the deque: by the least counterexample,
`PassesExist` shows that the chain of passes exists, `KeptTxKeeps` that no pass drops an event,
and `KeptTxIsFinal` that the last pass ends where the loop of the code ends.

`Connectivity_proofs` proves for every limit of attempts, pings and link events: types,
`NoErrorState` and `OcppHasTime`. `IInv` adds `TriesLeft`, `CaseAhead` (the places from which
the task gets to its switch without writing the state) and `TimeAhead` (the time is known
wherever OCPP was or is about to be started). `OutageIsReportedInTime` is the quantitative side
of `OutageIsReported`: `ToReport` counts the steps of the task until it reports a lost link to
a running OCPP task, at most 2 * `PingMaxFails` + `SyncMax` + 14; every step takes away from it
except link events and pings that could not be sent, or ends in an error loop. It needs
`StartIsOver`: nothing that the callback writes leads back to the start of the WiFi module.

`Network_proofs` proves for every limit and bound: types, `OneWayBack` and
`QueueFollowsSocket`. Counting the ways back is not inductive; `NetIInv` tells them apart
(`Exclusive`) and keeps with each what makes it the only one: the client thread and its
state (`ClientInv`), the deferred callbacks (`DeferredInv`), and what a station without a way
back looks like (`BackInv`: halted, or taking itself for connected with nothing queued;
from which also follows that a connect never meets a websocket that is connected).

Only model-checked: all liveness, as the provers do not do fairness or ENABLED
(`UnpluggedSettles`, `FaultCutsPower`, `OfflineEndsInHalt`, `EvIsGranted`, `OutageIsReported`,
`MeteringGoesOn`, `TxIsServed`, `LineIsFollowed`, `ComesBackOrHalts`, `OutageEndsInHalt`). For
`UnpluggedSettles`, `FaultCutsPower`, `LineIsFollowed` and `OutageIsReported` the bounded
responses above are proved. Every invariant, action property and refinement of a passing run
is stated by a theorem.

## Plan

1. (done) the J1772 stack and the charging task, `EvSession`, proofs.
2. (done) transaction handler, OCPP task, their composition, `TxLedger`, proofs.
3. (done) the connectivity task with the WiFi callback.
4. (done) metrology: double buffer and queue between interrupt and task.
5. (done) control pilot: PWM, sampling, classification and debounce, with proofs.
6. (done) proofs for `Connectivity`, for `NoLostBuffer` and for the types of `Evse`.
7. (done) libocpp: message queue, with proofs; websocket and connectivity manager.
8. (done) composition from the link to the CSMS, with proofs.
9. (done) proofs of `EventsKept`, of the refinement of `PaidSession` by the station, and of
   bounded responses of the charging task, the pilot and the connectivity task.
10. Open: a measure for the way of the OCPP task into the halt (`OfflineEndsInHalt`,
   `OutageEndsInHalt`) and for the delivery of a message (`TxIsServed`).
11. Open: sending through the websocket (a send whose wait timed out is still written
   later, and the queue is paused meanwhile), composed with `MessageQueue`.

Not modelled, and why:

* vendored code, about a million of the repository's lines (FreeRTOS, lwIP, mbedTLS,
  libwebsockets, WiFi driver, sqlite, JSON, SDK drivers): not the program's own logic. What
  the station uses of it appears as assumptions on scheduling, queues and callbacks. The
  map therefore covers a small share of all lines, and a large one of the station's own
  files;
* ISO 15118 (not built), metering arithmetic and meter library (numeric, binary library),
  TLS and sockets, display messages, tariffs and costs, low power, logging;
* in libocpp: the calendar arithmetic of `OcppTimepoint` (a message may become due at any
  moment), a triggered BootNotification, the database and `QueueAllMessages` (off in this
  build), the delay of `resume` (0), late answers to a message that is no longer in flight
  (they change nothing), the closes that a changed password or certificate asks for (this
  build never does), and functional blocks whose state the station's own code does not read.
