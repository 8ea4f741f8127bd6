------------------------------- MODULE Network ------------------------------
(***************************************************************************)
(* From the WiFi link to the connection with the CSMS: the connectivity    *)
(* task with the callback of the WiFi layer, the OCPP task as far as it    *)
(* opens and closes the websocket, the connectivity manager of libocpp,    *)
(* and the threads of the websocket (client, receive, deferred callbacks). *)
(*                                                                         *)
(* The OCPP task closes and opens the websocket synchronously: it waits in *)
(* a join for the client and the receive thread, while the thread of the   *)
(* deferred callbacks, the timer and the connectivity task go on.          *)
(***************************************************************************)
EXTENDS Connectivity, Ocpp, Websocket

CONSTANT MaxDeferred   \* bound: callbacks that wait when a connection is established

ASSUME MaxDeferredAssumption == MaxDeferred \in Nat

VARIABLES
  o,          \* the OCPP task; of its fields only those about the connection change
  reconnect,  \* its reconnect bit (the network-down bit is downRaised)
  call,       \* what it waits in: nothing, or one of the calls on the websocket below
  w,          \* the websocket
  wants,      \* wants_to_be_connected
  timer,      \* websocket_timer is running
  resumed,    \* the message queue was resumed last, not paused
  registered  \* the CSMS has accepted the station, which it does once

manager == <<wants, timer>>
csms    == <<resumed, registered>>
netVars == <<vars, o, reconnect, call, w, manager, csms>>

\* The close after a network-down event, of a connected websocket before it is started
\* again, and of a station that stops; and the start.
Calls == {"close", "restart", "stop", "start"}

NetTypeOK ==
  /\ TypeOK
  /\ o \in OcppType /\ w \in WebsocketType
  /\ call \in {"none"} \cup Calls
  /\ reconnect \in BOOLEAN /\ wants \in BOOLEAN /\ timer \in BOOLEAN
  /\ resumed \in BOOLEAN /\ registered \in BOOLEAN

NetInit ==
  /\ Init
  /\ o = InitOcpp /\ w = InitWebsocket
  /\ reconnect = FALSE /\ call = "none" /\ wants = FALSE /\ timer = FALSE
  /\ resumed = FALSE /\ registered = FALSE
-----------------------------------------------------------------------------
(* The connectivity task and the WiFi layer, which share the link and the  *)
(* network-down bit with the rest.                                         *)

Rest == UNCHANGED <<o, reconnect, call, w, manager, csms>>

ConnectivityTask == Task /\ Rest
LinkChanges      == (LinkLost \/ LinkEstablished) /\ Rest

\* An error loop stops the connectivity task, not the station.
ConnectivityError == ErrorLoop /\ Rest
-----------------------------------------------------------------------------
(* The OCPP task.                                                          *)

\* The task begins: start() and connect_websocket().
OcppStarts ==
  /\ ocppUp /\ ~o.up
  /\ o' = [o EXCEPT !.up = TRUE]
  /\ wants' = TRUE
  /\ w' = StartEnds(w)
  /\ UNCHANGED <<vars, reconnect, call, timer, csms>>

\* The head of the loop: the bits are taken, whatever becomes of them.
TakeBits ==
  /\ o.up /\ ~o.halted /\ call = "none"
  /\ downRaised \/ reconnect
  /\ downRaised' = FALSE /\ reconnect' = FALSE
  /\ UNCHANGED <<state, at, tries, fails, hasTime, ocppUp, wifi, used, csms>>

\* Mutant: the websocket is left open.
TakeConnectedOpen ==
  /\ TakeBits /\ o.connected
  /\ o' = IF downRaised THEN ServeNetworkDown(o) ELSE o
  /\ UNCHANGED <<call, w, manager>>

\* Connected: a network-down event closes the websocket unless it did before.
TakeConnected ==
  /\ TakeBits /\ o.connected
  /\ IF downRaised /\ ~o.downSent /\ IsActive(w)
       THEN call' = "close" /\ w' = Interrupt(w) /\ UNCHANGED o
       ELSE /\ o' = IF downRaised THEN ServeNetworkDown(o) ELSE o
            /\ UNCHANGED <<call, w>>
  /\ UNCHANGED manager

\* Not connected: every bit but the reconnect bit is dropped.
TakeOther ==
  /\ TakeBits /\ ~o.connected /\ ~reconnect
  /\ UNCHANGED <<o, call, w, manager>>

\* ConnectivityManager::connect; a connected websocket is closed first.
TakeReconnect ==
  /\ TakeBits /\ ~o.connected /\ reconnect /\ o.attempts < MaxReconnects
  /\ wants' = TRUE
  /\ w' = Interrupt(w)
  /\ call' = IF w.connected THEN "restart" ELSE "start"
  /\ UNCHANGED <<o, timer>>

\* The last attempt was made: ChargePoint::stop, ConnectivityManager::disconnect.
Halt ==
  /\ TakeBits /\ ~o.connected /\ reconnect /\ o.attempts = MaxReconnects
  /\ o' = ServeReconnect(o)
  /\ wants' = FALSE /\ timer' = FALSE
  /\ IF IsActive(w) THEN call' = "stop" /\ w' = Interrupt(w) ELSE UNCHANGED <<call, w>>

\* The joins have returned.  The rest of the call, and what the task does after it:
\* disconnect_requested is set, or the attempt is counted.
CallReturns ==
  /\ call # "none" /\ ThreadsEnded(w)
  /\ call' = "none"
  /\ w' = IF call = "start" THEN StartEnds(w) ELSE CloseEnds(w)
  /\ o' = CASE call = "close" -> ServeNetworkDown(o)
            [] call \in {"start", "restart"} -> ServeReconnect(o)
            [] call = "stop" -> o
  /\ UNCHANGED <<vars, reconnect, manager, csms>>
-----------------------------------------------------------------------------
(* The threads of the websocket.  A handshake needs the link; without it a *)
(* connection may stay half open until somebody notices.                   *)

ClientStep(next) == w' = next /\ UNCHANGED <<vars, o, reconnect, call, manager, csms>>

ClientConnects ==
  w.client = "connect" /\ (ClientStep(ConnectBegins(w)) \/ ClientStep(ConnectFails(w)))

ClientEstablished ==
  /\ w.client = "service" /\ w.state = "CONNECTING" /\ link
  /\ Len(w.deferred) <= MaxDeferred
  /\ ClientStep(Established(w))

\* The handshake fails or the connection is lost.
ClientFailed ==
  /\ w.client = "service"
  /\ ClientStep([Failed(w) EXCEPT !.client = "decide"])

\* An interrupted thread closes the socket; libwebsockets may report an established
\* connection as closed before it reports the socket as destroyed.
ClientInterrupted ==
  /\ w.client = "service" /\ ~w.running /\ w.state = "CONNECTED"
  /\ ClientStep([ClosedOnRequest(w) EXCEPT !.client = "decide"])

ClientDecides == w.client = "decide" /\ ClientStep(Decide(w))
ClientWaits   == w.client = "delay" /\ ClientStep(DelayEnds(w))
ClientExits   == w.client = "exit" /\ ClientStep(ExitLoop(w))
ClientEnds    == w.client = "linger" /\ ~w.running /\ ClientStep([w EXCEPT !.client = "done"])

\* The CSMS accepts the station's BootNotification.
BootAnswered ==
  /\ w.client = "service" /\ w.state = "CONNECTED" /\ link
  /\ ~registered /\ w.recv # "boot" /\ ~w.inbox
  /\ ClientStep([w EXCEPT !.inbox = TRUE])

\* thread_websocket_message_recv_loop: an interruption waits for the callback to end.
RecvTakes ==
  /\ w.recv = "idle" /\ w.inbox
  /\ ClientStep([w EXCEPT !.recv = "boot", !.inbox = FALSE])

RecvEnds == w.recv = "idle" /\ ~w.inbox /\ ~w.running /\ ClientStep([w EXCEPT !.recv = "none"])

\* OCPP_BootNotification_Cb, on the receive thread.
BootNotification_Cb ==
  /\ w.recv = "boot"
  /\ w' = [w EXCEPT !.recv = "idle"]
  /\ o' = ConnectionStateChanged(o, TRUE)
  /\ registered' = TRUE
  /\ UNCHANGED <<vars, reconnect, call, manager, resumed>>

\* thread_deferred_callback_queue: the next callback and, through the connectivity
\* manager, what it does to the message queue and to the OCPP task.
RunDeferred ==
  /\ w.deferred # << >>
  /\ w' = [w EXCEPT !.deferred = Tail(@)]
  /\ UNCHANGED <<vars, reconnect, call, wants, registered>>

websocket_connected_callback ==
  /\ RunDeferred /\ Head(w.deferred) = "connected"
  /\ resumed' = TRUE /\ o' = ConnectionStateChanged(o, TRUE)
  /\ UNCHANGED timer

websocket_disconnected_callback ==
  /\ RunDeferred /\ Head(w.deferred) = "disconnected"
  /\ resumed' = FALSE /\ o' = ConnectionStateChanged(o, FALSE)
  /\ UNCHANGED timer

on_websocket_stopped_connecting ==
  /\ RunDeferred /\ Head(w.deferred) = "stopped"
  /\ timer' = (timer \/ wants)
  /\ UNCHANGED <<o, resumed>>

\* websocket_timer: EVSE_OCPP_SetReconnectEvent.  WEBSOCKET_INIT_DELAY, 30 s, outlasts
\* the callbacks that were queued or running when it was started.
TimerExpires ==
  /\ timer /\ timer' = FALSE
  /\ w.deferred = << >> /\ w.recv # "boot"
  /\ reconnect' = TRUE
  /\ UNCHANGED <<vars, o, call, w, wants, csms>>

OcppTask ==
  \/ OcppStarts \/ TakeConnected \/ TakeOther \/ TakeReconnect \/ Halt
  \/ CallReturns
ClientThread ==
  \/ ClientConnects \/ ClientEstablished \/ ClientFailed \/ ClientInterrupted
  \/ ClientDecides \/ ClientWaits \/ ClientExits \/ ClientEnds
RecvThread == RecvTakes \/ RecvEnds \/ BootNotification_Cb
DeferredThread ==
  \/ websocket_connected_callback \/ websocket_disconnected_callback
  \/ on_websocket_stopped_connecting

NetNext ==
  \/ ConnectivityTask \/ LinkChanges \/ ConnectivityError \/ OcppTask
  \/ ClientThread \/ BootAnswered \/ RecvThread \/ DeferredThread \/ TimerExpires

NetSpec == NetInit /\ [][NetNext]_netVars

\* Not the serving of a connection, which may go on for ever unless the thread is
\* interrupted; libwebsockets bounds the handshake by a timeout.
ThreadsGoOn ==
  \/ RecvThread \/ DeferredThread \/ TimerExpires
  \/ (ClientThread /\ (w.state # "CONNECTED" \/ ~w.running))

\* Both tasks are scheduled, and of the threads of the websocket and the timer at least
\* one that can go on.
NetFairSpec ==
  /\ NetSpec
  /\ WF_netVars(ConnectivityTask) /\ WF_netVars(OcppTask) /\ WF_netVars(ThreadsGoOn)
-----------------------------------------------------------------------------
(* Properties.                                                             *)

Count(condition) == IF condition THEN 1 ELSE 0

\* The ways by which the station gets from a closed websocket to the next attempt: a
\* client thread that has not given back control, a callback that will start the timer,
\* the timer, the reconnect bit, a start in progress.
Ways ==
  Count(w.client \in {"connect", "service", "decide", "delay", "exit"} /\ ~w.stopRun)
  + Count(\E i \in DOMAIN w.deferred : w.deferred[i] = "stopped")
  + Count(timer) + Count(reconnect) + Count(call = "start")

\* However losses, closes and callbacks interleave, two attempts never run side by side
\* (two timers, or a timer beside a live client thread, would start threads twice), and
\* a station that knows it is not connected always has a way back until it halts.
OneWayBack ==
  /\ Ways <= 1
  /\ o.up /\ ~o.halted /\ ~o.connected => Ways = 1

\* The callbacks are deferred, in order, to another thread: whatever the websocket did
\* meanwhile, when they have all run the message queue is resumed exactly when the
\* websocket is connected, so no message is sent into a closed websocket for ever and
\* none is held back on an open one.
QueueFollowsSocket ==
  w.connected <=>
    IF w.deferred = << >> THEN resumed
    ELSE w.deferred[Len(w.deferred)] = "connected"

\* The OCPP task believes in a connection that is not there and nothing will tell it: the
\* answer to the BootNotification was handled while the websocket was being closed.
Deaf == o.connected /\ Ways = 0 /\ ~w.connected

\* A websocket that is not connected gets connected again, or the station halts after
\* its attempts, or is deaf.
ComesBackOrHalts == (o.up /\ ~w.connected) ~> (w.connected \/ o.halted \/ Deaf)

\* An outage that lasts ends in the halt, also when the websocket did not notice it, through
\* the ping, the network-down event, the close, and every attempt after it; unless the
\* connectivity task is in its error loop, which leaves nobody to find out, or deaf.
OutageEndsInHalt ==
  <>[](o.up /\ ~link) => <>(o.halted \/ at = "error" \/ Deaf)
=============================================================================
