---------------------------- MODULE MessageQueue ----------------------------
(***************************************************************************)
(* The queue of libocpp through which every CALL of the station goes       *)
(* (ocpp/common/message_queue.hpp), with the dispatcher that decides what  *)
(* may enter it and the answer to BootNotification that opens it.          *)
(*                                                                         *)
(* Four kinds of threads meet here: the worker that sends, the callers     *)
(* that push, the thread of the websocket that hands over what the CSMS    *)
(* sent, and the timer daemon of FreeRTOS, whose priority is the highest.  *)
(* All but a few accesses are under message_mutex, so a critical section   *)
(* is a step, except where a thread keeps the mutex across something that  *)
(* takes time (the send) or that a timer can interrupt (a received answer, *)
(* the worker going to sleep).                                             *)
(*                                                                         *)
(* Time is not counted.  A timer that runs may expire at any moment, and a  *)
(* message whose timestamp lies in the future may become due at any moment *)
(* or be due at once: OcppTimepoint's operator+ overshoots when it carries, *)
(* and the interval of a retry is added to the time of the first push,     *)
(* which may be long past.  An answer may take as long as it likes.        *)
(*                                                                         *)
(* The database is not compiled in, QueueAllMessages is false and the      *)
(* delay of resume() is 0, as charge_point.cpp sets them up.               *)
(***************************************************************************)
EXTENDS Integers, Sequences, FiniteSets

CONSTANTS
  MessageAttempts,      \* config.transaction_message_attempts
  SizeThreshold,        \* config.queues_total_size_threshold
  Script                \* bound: the transaction messages that the station pushes

ASSUME MessageQueueAssumption ==
  /\ MessageAttempts \in Nat \ {0}
  /\ SizeThreshold \in 1 .. 19      \* so that a tenth of it is less than two
  /\ Script \in Seq([kind : {"Event", "Update"}, triggered : BOOLEAN])

VARIABLES
  txq,        \* transaction_message_queue
  nq,         \* normal_message_queue
  inFlight,   \* in_flight; None is nullptr
  flags,      \* paused, running, new_message and is_registration_status_accepted
  worker,     \* where the worker thread is
  recv,       \* where the receiving thread of the websocket is
  timers,     \* in_flight_timeout_timer, notify_queue_timer and
              \* boot_notification_timer: whether they run
  expired,    \* the daemon runs the callback of the in-flight timer
  online,     \* the websocket is connected
  pushed,     \* how many transaction messages were pushed
  owed,       \* history: those that are no updates and did not go out yet
  lastSent,   \* history: the latest that went out
  fault       \* "none", or how the program was ended

queues == <<txq, nq, inFlight>>
history == <<pushed, owed, lastSent>>
vars == <<queues, flags, worker, recv, timers, expired, online, history, fault>>

None == [kind |-> "None"]

(***************************************************************************)
(* A ControlMessage.  `seq` tells which push a transaction message came    *)
(* from, `pos` is its place in the deque: the deque of transaction         *)
(* messages is a set whose front is the message with the least place.      *)
(* An answer counts only if it is to the unique id of the message in       *)
(* flight, which has a new one for every retry: a late answer to an        *)
(* earlier attempt changes nothing, and is not a step.                     *)
(***************************************************************************)
TxKinds == {"Event", "Update"}      \* Started, Ended or a security event; Updated
Kinds   == TxKinds \cup {"Boot", "Normal"}
Messages ==
  [kind : Kinds, seq : Nat, pos : Int, attempts : 0 .. MessageAttempts,
   due : BOOLEAN, stall : BOOLEAN, promised : BOOLEAN]

\* The worker evaluates the predicate of its wait when "ready"; "sleeping" it has
\* found it false and still holds the mutex.  `at` is what it sends: the front of
\* the transaction messages, 0, or a place in the other deque.
WorkerStates == {"ready", "sleeping", "blocked", "sending", "done"}
RecvStates   == {"idle", "result", "error", "boot", "call"}

TypeOK ==
  /\ txq \subseteq Messages
  /\ nq \in Seq(Messages)
  /\ inFlight \in Messages \cup {None}
  /\ flags \in [paused : BOOLEAN, running : BOOLEAN,
                newMessage : BOOLEAN, accepted : BOOLEAN]
  /\ worker \in [pc : WorkerStates, at : Nat]
  /\ recv \in RecvStates
  /\ timers \in [flight : BOOLEAN, notify : BOOLEAN, boot : BOOLEAN]
  /\ expired \in BOOLEAN /\ online \in BOOLEAN
  /\ pushed \in 0 .. Len(Script)
  /\ owed \subseteq 1 .. pushed /\ lastSent \in 0 .. pushed
  /\ fault \in {"none", "null", "promise"}
-----------------------------------------------------------------------------
(* Messages and deques.                                                    *)

IsTx(m) == m.kind \in TxKinds

NewMessage(kind, seq, stall) ==
  [kind |-> kind, seq |-> seq, pos |-> 0, attempts |-> 0, due |-> TRUE,
   stall |-> stall, promised |-> FALSE]

Front(q) == CHOOSE m \in q : \A x \in q : m.pos <= x.pos
Back(q)  == CHOOSE m \in q : \A x \in q : m.pos >= x.pos
PushBack(q, m)  == q \cup {[m EXCEPT !.pos = IF q = {} THEN 0 ELSE Back(q).pos + 1]}
\* Mutant: a retry goes to the back.
PushFrontAtBack(q, m) == PushBack(q, m)
PushFront(q, m) == q \cup {[m EXCEPT !.pos = IF q = {} THEN 0 ELSE Front(q).pos - 1]}

\* Mutant: that the station was accepted is not looked at again.
AllowedToSendUnstalled(m) == ~m.stall /\ m.due
AllowedToSend(m) == (m.stall => flags.accepted) /\ m.due

\* is_transaction_update_message messages that one pass over the deque drops: the
\* first, third, ... of a run of them, but neither of the last two messages.
RunBefore(q, m) ==
  {x \in q : /\ x.pos < m.pos
             /\ \A y \in q : x.pos <= y.pos /\ y.pos < m.pos => y.kind = "Update"}
\* Mutant: any message may be dropped.
DroppedAny(q) ==
  {m \in q : Cardinality({x \in q : x.pos > m.pos}) > 1}
Dropped(q) ==
  {m \in q : /\ m.kind = "Update"
             /\ Cardinality({x \in q : x.pos > m.pos}) > 1
             /\ Cardinality(RunBefore(q, m)) % 2 = 0}

\* check_queue_sizes: normal messages go first, from the front; then the updates,
\* pass after pass while there are too many.
KeptNormal(n, t) ==
  LET excess == Len(n) + Cardinality(t) - SizeThreshold
  IN  IF excess <= 0 THEN n
      ELSE IF excess >= Len(n) THEN <<>> ELSE SubSeq(n, excess + 1, Len(n))
KeptTx(n, t) ==
  LET after[k \in 0 .. Cardinality(t)] ==
        IF k = 0 THEN t
        ELSE IF Len(n) + Cardinality(after[k - 1]) > SizeThreshold
          THEN after[k - 1] \ Dropped(after[k - 1]) ELSE after[k - 1]
  IN  after[Cardinality(t)]

\* The queues once they hold n and t.
CheckQueueSizes(n, t) ==
  /\ nq' = KeptNormal(n, t)
  /\ txq' = KeptTx(nq', t)
-----------------------------------------------------------------------------
(* message_mutex and the condition variable.                               *)

LockFree == /\ worker.pc \notin {"sleeping", "sending"}
            /\ recv # "result"
\* A daemon that waits for the mutex gets it before any other thread.
CanLock == LockFree /\ ~expired

\* cv.notify_one and notify_all: the worker is the only one that waits.
Wake == worker' = IF worker.pc = "blocked" THEN [worker EXCEPT !.pc = "ready"] ELSE worker

\* The end of an iteration of the worker: its loop tests running.
Loop == [pc |-> IF flags.running THEN "ready" ELSE "done", at |-> 0]

\* promise.set_value throws when the promise has its value; nobody catches it.
SetPromise(m) == fault' = IF m.promised THEN "promise" ELSE fault

Init ==
  /\ txq = {} /\ inFlight = None
  /\ nq = <<NewMessage("Boot", 0, FALSE)>>
  /\ flags = [paused |-> TRUE, running |-> TRUE, newMessage |-> TRUE, accepted |-> FALSE]
  /\ worker = [pc |-> "ready", at |-> 0]
  /\ recv = "idle"
  /\ timers = [flight |-> FALSE, notify |-> FALSE, boot |-> FALSE]
  /\ expired = FALSE /\ online = FALSE
  /\ pushed = 0 /\ owed = {} /\ lastSent = 0
  /\ fault = "none"
-----------------------------------------------------------------------------
(* Callers.                                                                *)

\* add_to_normal_message_queue and add_to_transaction_message_queue, behind
\* dispatch_call and push_call.
Enqueue(n, t) ==
  /\ CanLock /\ flags.running
  /\ CheckQueueSizes(n, t)
  /\ flags' = [flags EXCEPT !.newMessage = TRUE]
  /\ Wake
  /\ UNCHANGED <<inFlight, recv, expired, online, lastSent, fault>>

\* A TransactionEvent or a SecurityEventNotification is always queued, and held
\* until the CSMS accepted the station unless the CSMS asked for it.
PushTx ==
  /\ pushed < Len(Script)
  /\ pushed' = pushed + 1
  /\ LET kind == Script[pushed'].kind
         m    == NewMessage(kind, pushed', ~flags.accepted /\ ~Script[pushed'].triggered)
     IN  /\ owed' = IF kind = "Event" THEN owed \cup {pushed'} ELSE owed
         /\ Enqueue(nq, PushBack(txq, m))
  /\ UNCHANGED timers

\* Any other message (a Heartbeat, a StatusNotification, an Authorize) is discarded
\* before the CSMS accepted the station, and while the queue is paused.
PushNormal(triggered) ==
  /\ flags.accepted \/ triggered
  /\ ~flags.paused
  /\ Enqueue(Append(nq, NewMessage("Normal", 0, FALSE)), txq)
  /\ UNCHANGED <<timers, pushed, owed>>

\* Mutant: the timer is an interval that nobody stops.
BootTimerFiresAgain ==
  /\ timers.boot
  /\ Enqueue(<<NewMessage("Boot", 0, FALSE)>> \o nq, txq)
  /\ UNCHANGED <<timers, pushed, owed>>

\* boot_notification_timer: the CSMS did not accept the station, which asks again.
BootTimerFires ==
  /\ timers.boot
  /\ timers' = [timers EXCEPT !.boot = FALSE]
  /\ Enqueue(<<NewMessage("Boot", 0, FALSE)>> \o nq, txq)
  /\ UNCHANGED <<pushed, owed>>

\* ChargePoint::stop, which the OCPP task calls when it gives up reconnecting, stops
\* the timer, closes the websocket for good and sets running, without the mutex.
Stop ==
  /\ flags.running /\ ~online
  /\ flags' = [flags EXCEPT !.running = FALSE]
  /\ timers' = [timers EXCEPT !.boot = FALSE]
  /\ Wake
  /\ UNCHANGED <<queues, recv, expired, online, history, fault>>
-----------------------------------------------------------------------------
(* The worker.                                                             *)

\* The places of the normal messages that may be sent; the first of them is taken.
Sendable == {i \in DOMAIN nq : AllowedToSend(nq[i])}
\* Mutant: the last of them is taken.
FirstSendableLast == CHOOSE i \in Sendable : \A k \in Sendable : i >= k
FirstSendable == CHOOSE i \in Sendable : \A k \in Sendable : i <= k

\* A BootNotification goes first.  Every other message waits for the transaction
\* message at the front: operator<= on the timestamps is always true.
TakesTx ==
  /\ txq # {} /\ AllowedToSend(Front(txq))
  /\ Sendable = {} \/ nq[FirstSendable].kind # "Boot"

\* Mutant: attempts are counted past the limit.
AttemptedUncapped(m) == [m EXCEPT !.attempts = @ + 1]
\* message_attempts, which is compared with the limit for transaction messages only.
Attempted(m) ==
  [m EXCEPT !.attempts = IF IsTx(m) /\ @ < MessageAttempts THEN @ + 1 ELSE @]

\* The worker takes the mutex and evaluates the predicate of its wait.
WorkerWaits ==
  /\ worker.pc = "ready" /\ CanLock
  /\ flags.running
  /\ flags.paused \/ ~flags.newMessage \/ inFlight # None
  /\ worker' = [worker EXCEPT !.pc = "sleeping"]
  /\ UNCHANGED <<queues, flags, recv, timers, expired, online, history, fault>>

\* It gives the mutex back and blocks, in one step of the condition variable.
WorkerBlocks ==
  /\ worker.pc = "sleeping"
  /\ worker' = [worker EXCEPT !.pc = "blocked"]
  /\ UNCHANGED <<queues, flags, recv, timers, expired, online, history, fault>>

\* Past the wait there is nothing to do (also when stop() ended it), or nothing that
\* may be sent yet, or the answer to a CALL of the CSMS has to go first.
Passed == \/ ~flags.running
          \/ ~flags.paused /\ flags.newMessage /\ inFlight = None
Idle   == (txq = {} /\ nq = <<>>) \/ flags.paused \/ inFlight # None
Nothing == Sendable = {} /\ ~TakesTx
WorkerTurns ==
  /\ worker.pc = "ready" /\ CanLock
  /\ Passed
  /\ Idle \/ Nothing \/ recv = "call"
  /\ flags' = [flags EXCEPT !.newMessage = @ /\ (Idle \/ ~Nothing)]
  /\ worker' = Loop
  /\ UNCHANGED <<queues, recv, timers, expired, online, history, fault>>

\* A message goes in flight; it stays in its deque until it is sent.
WorkerTakes ==
  /\ worker.pc = "ready" /\ CanLock
  /\ Passed /\ ~Idle /\ ~Nothing /\ recv # "call"
  /\ IF TakesTx
       THEN LET m == Front(txq)
            IN  /\ inFlight' = Attempted(m)
                /\ txq' = (txq \ {m}) \cup {Attempted(m)}
                /\ worker' = [pc |-> "sending", at |-> 0]
                /\ UNCHANGED nq
       ELSE /\ inFlight' = Attempted(nq[FirstSendable])
            /\ nq' = [nq EXCEPT ![FirstSendable] = Attempted(@)]
            /\ worker' = [pc |-> "sending", at |-> FirstSendable]
            /\ UNCHANGED txq
  /\ UNCHANGED <<flags, recv, timers, expired, online, history, fault>>

WentOut(m) == IF IsTx(m) THEN owed' = owed \ {m.seq} /\ lastSent' = m.seq
                         ELSE UNCHANGED <<owed, lastSent>>
RemoveFrom(q, i) == SubSeq(q, 1, i - 1) \o SubSeq(q, i + 1, Len(q))

\* send_callback returned true: the timer of the message starts.
SendSucceeds ==
  /\ worker.pc = "sending" /\ online
  /\ IF worker.at = 0
       THEN txq' = txq \ {Front(txq)} /\ UNCHANGED nq
       ELSE nq' = RemoveFrom(nq, worker.at) /\ UNCHANGED txq
  /\ flags' = [flags EXCEPT !.newMessage = @ /\ ~(txq' = {} /\ nq' = <<>>)]
  /\ timers' = [timers EXCEPT !.flight = TRUE]
  /\ WentOut(inFlight)
  /\ worker' = Loop
  /\ UNCHANGED <<inFlight, recv, expired, online, pushed, fault>>

\* send_callback returned false: offline, or nothing was heard of the message for
\* MESSAGE_SEND_TIMEOUT_S, after which the websocket may still send it.  A message
\* that is not kept gets its promise, and the front of its deque is dropped.
SendFails(delivered) ==
  /\ worker.pc = "sending"
  /\ delivered => online
  /\ IF worker.at = 0
       THEN UNCHANGED <<nq, fault>>
       ELSE /\ nq' = Tail([nq EXCEPT ![worker.at].promised = TRUE])
            /\ SetPromise(inFlight)
  /\ flags' = [flags EXCEPT !.paused = TRUE,
                            !.newMessage = @ /\ ~(txq = {} /\ nq' = <<>>)]
  /\ IF delivered THEN WentOut(inFlight) ELSE UNCHANGED <<owed, lastSent>>
  /\ inFlight' = None
  /\ timers' = [timers EXCEPT !.flight = FALSE]
  /\ worker' = Loop
  /\ UNCHANGED <<txq, recv, expired, online, pushed>>
-----------------------------------------------------------------------------
(* A message that was not answered in time, or with a CALLERROR.           *)

\* The message comes back at the front of its deque under a new id.  The timer that
\* tells the worker is set from a time point that operator+ left unchanged, which is
\* past, and so to one second.
Retry(m) ==
  \E due \in BOOLEAN :
    LET again == [m EXCEPT !.due = due]
    IN  /\ IF IsTx(m) THEN txq' = PushFront(txq, again) /\ UNCHANGED nq
                      ELSE nq' = <<again>> \o nq /\ UNCHANGED txq
        /\ timers' = [timers EXCEPT !.flight = FALSE, !.notify = TRUE]
        /\ UNCHANGED fault

\* The message is given up and its promise gets a value.
GiveUp(m) ==
  /\ SetPromise(m)
  /\ timers' = [timers EXCEPT !.flight = FALSE]
  /\ UNCHANGED <<txq, nq>>

HandleTimeoutOrCallerror ==
  /\ IF inFlight = None THEN fault' = "null" /\ UNCHANGED <<txq, nq, timers>>
     ELSE IF IsTx(inFlight) /\ inFlight.attempts < MessageAttempts
       THEN Retry(inFlight)
     ELSE IF inFlight.kind = "Boot" THEN Retry(inFlight)
     ELSE GiveUp(inFlight)
  /\ inFlight' = None
  /\ Wake
  /\ UNCHANGED <<flags, online, history>>
-----------------------------------------------------------------------------
(* The timer daemon.                                                       *)

\* The in-flight timer expires: its callback starts, and may find the mutex taken.
TimerExpires ==
  /\ timers.flight /\ ~expired
  /\ timers' = [timers EXCEPT !.flight = FALSE]
  /\ expired' = TRUE
  /\ UNCHANGED <<queues, flags, worker, recv, online, history, fault>>

MessageTimesOut ==
  /\ expired /\ LockFree
  /\ expired' = FALSE
  /\ HandleTimeoutOrCallerror
  /\ UNCHANGED recv

\* notify_queue_timer sets new_message and notifies without the mutex: a worker that
\* is about to block does not hear it.
NotifyTimerFires ==
  /\ timers.notify /\ ~expired
  /\ timers' = [timers EXCEPT !.notify = FALSE]
  /\ flags' = [flags EXCEPT !.newMessage = TRUE]
  /\ Wake
  /\ UNCHANGED <<queues, recv, expired, online, history, fault>>

\* The time of a retry comes.
BecomesDue ==
  /\ \/ \E m \in txq : /\ ~m.due
                       /\ txq' = (txq \ {m}) \cup {[m EXCEPT !.due = TRUE]}
                       /\ UNCHANGED nq
     \/ \E i \in DOMAIN nq : /\ ~nq[i].due
                             /\ nq' = [nq EXCEPT ![i].due = TRUE]
                             /\ UNCHANGED txq
  /\ UNCHANGED <<inFlight, flags, worker, recv, timers, expired, online, history, fault>>
-----------------------------------------------------------------------------
(* The receiving thread of the websocket, and the connection.              *)

\* receive() for a CALLRESULT or a CALLERROR: only the id of the message in flight
\* is looked at further.
ReceiveAnswer(answer) ==
  /\ recv = "idle" /\ CanLock
  /\ inFlight # None
  /\ recv' = answer
  /\ UNCHANGED <<queues, flags, worker, timers, expired, online, history, fault>>

\* Mutant: the timer of the answered message is not stopped.
HandleCallResultTimed ==
  /\ recv = "result"
  /\ SetPromise(inFlight)
  /\ recv' = IF inFlight.kind = "Boot" THEN "boot" ELSE "idle"
  /\ inFlight' = None
  /\ Wake
  /\ UNCHANGED <<txq, nq, flags, timers, expired, online, history>>

\* handle_call_result; the answer to a BootNotification is then handled.
HandleCallResult ==
  /\ recv = "result"
  /\ SetPromise(inFlight)
  /\ recv' = IF inFlight.kind = "Boot" THEN "boot" ELSE "idle"
  /\ inFlight' = None
  /\ timers' = [timers EXCEPT !.flight = FALSE]
  /\ Wake
  /\ UNCHANGED <<txq, nq, flags, expired, online, history>>

\* A CALLERROR: receive() gave the mutex back, and the handler takes it again.
HandleCallerror ==
  /\ recv = "error" /\ CanLock
  /\ recv' = "idle"
  /\ HandleTimeoutOrCallerror
  /\ UNCHANGED expired

\* Provisioning::handle_boot_notification_response
HandleBootResponse(accepted) ==
  /\ recv = "boot" /\ CanLock
  /\ recv' = "idle"
  /\ flags' = [flags EXCEPT !.accepted = accepted \/ @]
  /\ timers' = [timers EXCEPT !.boot = ~accepted]
  /\ IF accepted THEN Wake ELSE UNCHANGED worker
  /\ UNCHANGED <<queues, expired, online, history, fault>>

\* receive() for a CALL, and push_call_result or push_call_error for its answer.
ReceiveCall ==
  /\ recv = "idle" /\ online
  /\ recv' = "call"
  /\ UNCHANGED <<queues, flags, worker, timers, expired, online, history, fault>>

PushCallResult ==
  /\ recv = "call"
  /\ recv' = "idle"
  /\ IF flags.running THEN Wake ELSE UNCHANGED worker
  /\ UNCHANGED <<queues, flags, timers, expired, online, history, fault>>

\* websocket_connected_callback resumes the queue, without delay.
Connect ==
  /\ ~online /\ flags.running /\ CanLock
  /\ online' = TRUE
  /\ flags' = [flags EXCEPT !.paused = FALSE]
  /\ Wake
  /\ UNCHANGED <<queues, recv, timers, expired, history, fault>>

\* The connection is lost, with the answers that were not received yet; then
\* websocket_disconnected_callback pauses the queue.
Disconnect ==
  /\ online
  /\ online' = FALSE
  /\ UNCHANGED <<queues, flags, worker, recv, timers, expired, history, fault>>

Pause ==
  /\ ~online /\ CanLock
  /\ ~flags.paused
  /\ flags' = [flags EXCEPT !.paused = TRUE]
  /\ Wake
  /\ UNCHANGED <<queues, recv, timers, expired, online, history, fault>>

-----------------------------------------------------------------------------
Push == PushTx \/ \E triggered \in BOOLEAN : PushNormal(triggered)
Work == \/ WorkerWaits \/ WorkerBlocks \/ WorkerTurns \/ WorkerTakes
        \/ SendSucceeds
        \/ \E delivered \in BOOLEAN : SendFails(delivered)
Daemon == TimerExpires \/ MessageTimesOut \/ NotifyTimerFires \/ BootTimerFires
Receive == \/ \E answer \in {"result", "error"} : ReceiveAnswer(answer)
           \/ HandleCallResult \/ HandleCallerror
           \/ \E accepted \in BOOLEAN : HandleBootResponse(accepted)
           \/ ReceiveCall \/ PushCallResult
Network == Connect \/ Disconnect \/ Pause

Next == fault = "none" /\ (Push \/ Stop \/ Work \/ Daemon \/ BecomesDue \/ Receive \/ Network)
Spec == Init /\ [][Next]_vars
-----------------------------------------------------------------------------
(* Fairness.  Every thread runs: the scheduler is preemptive and no thread *)
(* but the worker ever spins, at a low priority.  A timer that runs        *)
(* expires.  Once the station is accepted the heartbeat timer pushes a     *)
(* message again and again; it waits for the mutex like any caller and is  *)
(* given it in turn.  Nothing is assumed of the network or of the CSMS.    *)

Heartbeat == fault = "none" /\ PushNormal(FALSE)
FairSpec ==
  /\ Spec
  /\ WF_vars(fault = "none" /\ Work)
  /\ WF_vars(fault = "none" /\ Daemon)
  /\ WF_vars(fault = "none" /\ BecomesDue)
  /\ WF_vars(fault = "none" /\ (HandleCallResult \/ PushCallResult))
  /\ SF_vars(fault = "none" /\ HandleCallerror)
  /\ SF_vars(Heartbeat)
-----------------------------------------------------------------------------
(* Properties.                                                             *)

\* Transaction messages leave in the order they were pushed: the deque is in that
\* order, no message in it is older than one that already went out, and one that
\* waits in flight for its answer is older than all of them.  "Transaction messages
\* must persist the order" (message_queue.hpp), whatever is retried, thinned or
\* fails to be sent.
InFlightTx == inFlight # None /\ IsTx(inFlight)
TxInOrder ==
  /\ \A x, y \in txq : x.pos < y.pos => x.seq < y.seq
  /\ \A m \in txq : lastSent <= m.seq
  /\ InFlightTx => \A m \in txq : inFlight.seq <= m.seq

\* A Started, an Ended or a security event is never lost before it went out: it is
\* in the deque until then, however full the queues are.
EventsKept == \A s \in owed : \E m \in txq : m.seq = s /\ m.kind = "Event"

\* A message in flight always has somebody who ends its flight (the worker that
\* sends it, its timer, the daemon in the timer's callback or the handler of its
\* answer), for the queue sends nothing else until then; and the timer only runs
\* while there is a message for its callback to look at.
FlightIsWatched ==
  /\ inFlight # None => \/ worker.pc = "sending" \/ timers.flight \/ expired
                        \/ recv \in {"result", "error"}
  /\ timers.flight => inFlight # None

\* There is one BootNotification at most, and none once the station is accepted: it
\* waits at the front of its deque, is in flight, is being answered, or the timer
\* runs that queues it again.  A retry and the timer never both send one.
BootInFlight == inFlight # None /\ inFlight.kind = "Boot" /\ worker.pc # "sending"
BootQueued   == nq # <<>> /\ nq[1].kind = "Boot"
BootPlaces   == {p \in {"queue", "flight", "answer", "timer"} :
                   \/ p = "queue" /\ BootQueued
                   \/ p = "flight" /\ BootInFlight
                   \/ p = "answer" /\ recv = "boot"
                   \/ p = "timer" /\ timers.boot}
OneBoot ==
  /\ \A i \in DOMAIN nq : nq[i].kind = "Boot" => i = 1
  /\ \A p, q \in BootPlaces : p = q
  /\ flags.accepted => BootPlaces = {}

\* Once the station is accepted no promise is set twice.  A failed send sets the
\* promise of its message and drops the front of the deque, which is another message
\* only while a BootNotification waits there for its retry.
PromisesSetOnce ==
  /\ fault = "promise" => ~flags.accepted
  /\ flags.accepted => \A i \in DOMAIN nq : ~nq[i].promised

\* Once the station is accepted and stays connected, and no CALL of the CSMS keeps
\* the worker back, every transaction message is delivered or given up: no lost
\* wakeup, no retry that nobody looks at and no priority of other messages holds one
\* back for ever.
TxIsServed ==
  /\ <>[](flags.accepted /\ ~flags.paused /\ flags.running /\ recv # "call")
  /\ [](fault = "none")
  => <>[](txq = {} /\ ~InFlightTx)

\* "Message is BootNotification.req and will therefore be sent again": until the
\* CSMS accepts the station, a BootNotification is queued, in flight or answered,
\* or the timer that will queue one runs.
BootIsPending ==
  flags.running /\ ~flags.accepted =>
    \/ timers.boot \/ recv = "boot"
    \/ inFlight # None /\ inFlight.kind = "Boot"
    \/ \E i \in DOMAIN nq : nq[i].kind = "Boot"
-----------------------------------------------------------------------------
\* The security event of start(), and a transaction that starts, charges and ends.
StartChargeEnd ==
  << [kind |-> "Event",  triggered |-> TRUE],
     [kind |-> "Update", triggered |-> FALSE],
     [kind |-> "Update", triggered |-> FALSE],
     [kind |-> "Event",  triggered |-> FALSE] >>
\* The security event alone.
JustStarted == SubSeq(StartChargeEnd, 1, 1)
=============================================================================
