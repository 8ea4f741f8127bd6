----------------------------- MODULE Websocket ------------------------------
(***************************************************************************)
(* The websocket of libocpp (websocket_libwebsockets.cpp) as operators on  *)
(* the value of its members: the connection data that the client thread    *)
(* shares with its owner, where that thread and the receive thread are,    *)
(* and the queue of deferred callbacks.                                    *)
(*                                                                         *)
(* A callback of libwebsockets is one step: while the client thread lives  *)
(* the owner changes nothing but `running'.  Left out: sending, pings, TLS *)
(* and the connection options.  Of the messages received only the answer   *)
(* that accepts a BootNotification is kept: handling it changes whether    *)
(* the OCPP task takes itself for connected.                               *)
(***************************************************************************)
EXTENDS Integers, Sequences

CONSTANT MaxConnectionAttempts   \* EVSE_OCPP_NETWORK_PROFILE_CONNECTION_ATTEMPTS, 5

ASSUME MaxConnectionAttemptsAssumption == MaxConnectionAttempts \in Nat

\* EConnectionState; CONNECTING is the state in which the handshake is under way.
EConnectionState ==
  {"INITIALIZE", "CONNECTING", "RECONNECTING", "CONNECTED", "ERROR", "FINALIZED"}

Callbacks == {"connected", "disconnected", "stopped"}

WebsocketType ==
  [exists    : BOOLEAN,            \* conn_data is not null
   running   : BOOLEAN,            \* its is_running: nobody has interrupted the threads
   stopRun   : BOOLEAN,            \* its is_stopped_run
   state     : EConnectionState,
   attempts  : 1 .. MaxConnectionAttempts + 1,
   connected : BOOLEAN,            \* m_is_connected
   client    : {"none", "connect", "service", "decide", "delay", "exit", "linger", "done"},
   recv      : {"none", "idle", "boot"},
   inbox     : BOOLEAN,            \* the accepting answer is in recv_message_queue
   deferred  : Seq(Callbacks)]

InitWebsocket ==
  [exists |-> FALSE, running |-> FALSE, stopRun |-> FALSE, state |-> "INITIALIZE",
   attempts |-> 1, connected |-> FALSE, client |-> "none", recv |-> "none",
   inbox |-> FALSE, deferred |-> << >>]
-----------------------------------------------------------------------------
(* The callbacks that run on the client thread.                            *)

clear_all_queues(w) == [w EXCEPT !.inbox = FALSE]

Push(w, callbacks) == [w EXCEPT !.deferred = @ \o callbacks]

on_conn_connected(w) ==
  Push(clear_all_queues([w EXCEPT !.attempts = 1, !.connected = TRUE]), <<"connected">>)

\* One deferred function calls both callbacks, the stop first.
on_conn_close(w) ==
  Push(clear_all_queues([w EXCEPT !.connected = FALSE, !.stopRun = TRUE]),
       <<"stopped", "disconnected">>)

\* Mutant: the application is not told of a connection that failed.
on_conn_failSilently(w) == clear_all_queues([w EXCEPT !.connected = FALSE])

on_conn_fail(w) ==
  clear_all_queues(
    [Push(w, IF w.connected THEN <<"disconnected">> ELSE << >>) EXCEPT !.connected = FALSE])

\* CLIENT_ESTABLISHED
Established(w) == on_conn_connected([w EXCEPT !.state = "CONNECTED"])

\* CLIENT_CONNECTION_ERROR, WS_PEER_INITIATED_CLOSE, CLIENT_CLOSED without a request,
\* WSI_DESTROY: each of them after another changes nothing more.
Failed(w) == on_conn_fail([w EXCEPT !.state = "ERROR"])

\* CLIENT_CLOSED on request, which WSI_DESTROY follows.
ClosedOnRequest(w) == Failed(on_conn_close([w EXCEPT !.state = "FINALIZED"]))
-----------------------------------------------------------------------------
(* thread_websocket_client_loop.  Each operator is a step of the thread.   *)

ConnectBegins(w) ==
  [w EXCEPT !.stopRun = FALSE, !.state = "CONNECTING", !.client = "service"]

ConnectFails(w) == [Failed([w EXCEPT !.stopRun = FALSE]) EXCEPT !.client = "decide"]

\* Mutants: the limit of the attempts is missed by one; it is not looked at.
DecideOneMore(w) ==
  IF ~w.running THEN [w EXCEPT !.client = "exit"]
  ELSE IF w.attempts <= MaxConnectionAttempts + 1
    THEN [w EXCEPT !.state = "RECONNECTING", !.attempts = @ + 1, !.client = "delay"]
    ELSE [w EXCEPT !.state = "FINALIZED", !.client = "exit"]

DecideForever(w) ==
  IF ~w.running THEN [w EXCEPT !.client = "exit"]
  ELSE [w EXCEPT !.state = "RECONNECTING", !.client = "delay"]

\* After the service loop, whose connection is gone: give up or wait and try again.
Decide(w) ==
  IF ~w.running THEN [w EXCEPT !.client = "exit"]
  ELSE IF w.attempts <= MaxConnectionAttempts
    THEN [w EXCEPT !.state = "RECONNECTING", !.attempts = @ + 1, !.client = "delay"]
    ELSE [w EXCEPT !.state = "FINALIZED", !.client = "exit"]

DelayEnds(w) == [w EXCEPT !.client = IF w.running THEN "connect" ELSE "exit"]

\* Mutant: control is given back whether or not a close has done so.
ExitLoopTwice(w) == [Push(w, <<"stopped", "disconnected">>) EXCEPT !.client = "linger"]

\* Give back control unless the close already has; then wait to be interrupted.
ExitLoop(w) ==
  [Push(w, IF w.stopRun THEN << >> ELSE <<"stopped", "disconnected">>)
   EXCEPT !.client = "linger"]
-----------------------------------------------------------------------------
(* The owner's calls.                                                      *)

is_trying_to_connect_internal(w) == w.exists /\ w.state # "FINALIZED"

\* close_internal returns at once for an inactive websocket.
IsActive(w) == is_trying_to_connect_internal(w) \/ w.connected

\* safe_close_threads up to the first join: interrupt both threads, clear the queues.
Interrupt(w) == clear_all_queues([w EXCEPT !.running = FALSE])

\* Its joins return when both threads have ended.
ThreadsEnded(w) == w.client \in {"none", "done"} /\ w.recv = "none"

\* The rest of close_internal, and of start_connecting.
CloseEnds(w) == [w EXCEPT !.exists = FALSE, !.connected = FALSE, !.client = "none"]

StartEnds(w) ==
  [w EXCEPT !.exists = TRUE, !.running = TRUE, !.stopRun = FALSE, !.state = "INITIALIZE",
            !.attempts = 1, !.client = "connect", !.recv = "idle"]
=============================================================================
