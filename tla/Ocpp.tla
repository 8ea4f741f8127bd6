-------------------------------- MODULE Ocpp --------------------------------
(***************************************************************************)
(* The OCPP task of the station (EVSE_Ocpp.cpp) as operators on the value  *)
(* of its statics, its transaction handler and the transaction that        *)
(* libocpp keeps for the outlet.  The task takes all event bits at once    *)
(* and serves them in a fixed order, whatever order they were set in; each *)
(* Serve operator is one of the if blocks of its loop.                     *)
(*                                                                         *)
(* Left out: telemetry (it changes nothing kept here), charging state and  *)
(* trigger reasons of the messages, costs, displayed messages, logging.    *)
(***************************************************************************)
EXTENDS Integers, Sequences, TransactionHandler

CONSTANT MaxReconnects     \* EVSE_OCPP_MAX_RECONNECTS, 15 in the code

ASSUME MaxReconnectsAssumption == MaxReconnects \in Nat

\* The event bits in the order the loop tests them.
ServingOrder ==
  <<"EvConnected", "AuthNeeded", "EvAuthorized", "ChargingStarted", "StartRemote",
    "ChargingStopped", "StopRemote", "EvDisconnected", "NetworkDown">>

SessionEvents == {ServingOrder[i] : i \in 1 .. Len(ServingOrder)}
OcppEvents    == SessionEvents \cup {"Reconnect"}

OcppType ==
  [up         : BOOLEAN,        \* is_init
   connected  : BOOLEAN,        \* s_ocppConnectionState = EVSE_Ocpp_Connected
   plugged    : BOOLEAN,        \* EV_plugged_in
   authorized : BOOLEAN,        \* is_EV_authorized
   started    : BOOLEAN,        \* session_started
   asked      : BOOLEAN,        \* last_auth_time > 0
   downSent   : BOOLEAN,        \* disconnect_requested
   attempts   : 0 .. MaxReconnects,
   halted     : BOOLEAN,        \* the loop was left for good
   handler    : HandlerType,
   tx         : BOOLEAN,        \* libocpp has an open transaction for the outlet
   idSent     : BOOLEAN]        \* its id_token_sent

InitOcpp ==
  [up |-> FALSE, connected |-> FALSE, plugged |-> FALSE, authorized |-> FALSE,
   started |-> FALSE, asked |-> FALSE, downSent |-> FALSE, attempts |-> 0,
   halted |-> FALSE, handler |-> NoHandler, tx |-> FALSE, idSent |-> FALSE]
-----------------------------------------------------------------------------
(* libocpp, as far as the task's calls change the open transaction.        *)

on_transaction_started(o)  == [o EXCEPT !.tx = TRUE, !.idSent = FALSE]
on_transaction_finished(o) == [o EXCEPT !.tx = FALSE, !.idSent = FALSE]

\* Mutant: the id token is sent again.
SendsIdTokenAgain(o) == o.tx

\* Whether on_authorized sends the id token to the CSMS.
SendsIdToken(o) == o.tx /\ ~o.idSent

on_authorized(o) == IF SendsIdToken(o) THEN [o EXCEPT !.idSent = TRUE] ELSE o
-----------------------------------------------------------------------------
(* The functions the blocks of the loop share.                             *)

process_tx_event_effect(o) ==
  CASE Effect(o.handler) = "START_TRANSACTION" ->
         on_transaction_started([o EXCEPT !.handler.data = "started"])
    [] Effect(o.handler) = "STOP_TRANSACTION" ->
         [on_transaction_finished(o) EXCEPT !.handler = reset_transaction_data(@)]
    [] OTHER -> o

Submit(o, event) == [o EXCEPT !.handler = submit_event(@, event)]

process_charging_started(o) ==
  process_tx_event_effect(Submit(o, "ENERGY_TRANSFER_STARTED"))

\* Mutant: a stop ends the transaction, whatever the effect of the event.
process_charging_endedFinally(o) ==
  [on_transaction_finished(Submit(o, "ENERGY_TRANSFER_STOPPED"))
   EXCEPT !.handler = reset_transaction_data(@)]

\* The last call passes on the charging state of the data it fetched first.
process_charging_ended(o) ==
  process_tx_event_effect(Submit(o, "ENERGY_TRANSFER_STOPPED"))

reset_session_state(o) ==
  [o EXCEPT !.plugged = FALSE, !.authorized = FALSE, !.started = FALSE, !.asked = FALSE]
-----------------------------------------------------------------------------
(* The blocks of the loop while connected to the CSMS.                     *)

\* Mutants: a session replaces the one in progress; the EV is not marked plugged.
ServeConnectedAnew(o) ==
  [process_tx_event_effect(
     Submit([o EXCEPT !.handler = add_transaction_data(NewHandler)], "EV_CONNECTED"))
   EXCEPT !.plugged = TRUE]

ServeConnectedUnplugged(o) ==
  IF o.handler.alive THEN o
  ELSE process_tx_event_effect(
         Submit([o EXCEPT !.handler = add_transaction_data(NewHandler)], "EV_CONNECTED"))

ServeConnected(o) ==
  IF o.handler.alive THEN o
  ELSE [process_tx_event_effect(
          Submit([o EXCEPT !.handler = add_transaction_data(NewHandler)], "EV_CONNECTED"))
        EXCEPT !.plugged = TRUE]

ServeAuthNeeded(o) ==
  IF o.plugged THEN [on_authorized(o) EXCEPT !.asked = TRUE] ELSE o

\* The effect of the event is not looked at.
ServeAuthorized(o) ==
  IF o.handler.alive
    THEN Submit(o, IF o.authorized THEN "AUTHORIZED" ELSE "DEAUTHORIZED")
    ELSE o

ServeStarted(o) ==
  IF o.plugged /\ o.handler.alive
    THEN [process_charging_started(o) EXCEPT !.started = TRUE] ELSE o

ServeStartRemote(o) == IF o.handler.alive THEN process_charging_started(o) ELSE o

\* A local stop and a stop asked for by the CSMS end the energy transfer.
EndsTransfer(o, e) ==
  \/ e = "ChargingStopped" /\ o.plugged /\ o.started /\ o.handler.alive
  \/ e = "StopRemote" /\ o.handler.alive

ServeStopped(o) ==
  IF EndsTransfer(o, "ChargingStopped")
    THEN [process_charging_ended(o) EXCEPT !.started = FALSE] ELSE o

ServeStopRemote(o) ==
  IF EndsTransfer(o, "StopRemote") THEN process_charging_ended(o) ELSE o

\* Mutant: the effect of EV_DISCONNECTED is dropped.
ServeDisconnectedSilently(o) ==
  IF o.plugged /\ o.handler.alive
    THEN reset_session_state([o EXCEPT !.handler = NoHandler])
    ELSE IF ~o.handler.alive THEN reset_session_state(o) ELSE o

\* The effect of DEAUTHORIZED is not looked at, that of EV_DISCONNECTED is.
ServeDisconnected(o) ==
  IF o.plugged /\ o.handler.alive
    THEN reset_session_state(
           [process_tx_event_effect(Submit(Submit(o, "DEAUTHORIZED"), "EV_DISCONNECTED"))
            EXCEPT !.handler = NoHandler])
    ELSE IF ~o.handler.alive THEN reset_session_state(o) ELSE o

ServeNetworkDown(o) == [o EXCEPT !.downSent = TRUE]

Serve(o, e) ==
  CASE e = "EvConnected"     -> ServeConnected(o)
    [] e = "AuthNeeded"      -> ServeAuthNeeded(o)
    [] e = "EvAuthorized"    -> ServeAuthorized(o)
    [] e = "ChargingStarted" -> ServeStarted(o)
    [] e = "StartRemote"     -> ServeStartRemote(o)
    [] e = "ChargingStopped" -> ServeStopped(o)
    [] e = "StopRemote"      -> ServeStopRemote(o)
    [] e = "EvDisconnected"  -> ServeDisconnected(o)
    [] e = "NetworkDown"     -> ServeNetworkDown(o)

\* Of the bits taken, the one whose block comes next.
IsNext(e, taken) ==
  \E i \in 1 .. Len(ServingOrder) :
     /\ ServingOrder[i] = e /\ e \in taken
     /\ \A k \in 1 .. i - 1 : ServingOrder[k] \notin taken
-----------------------------------------------------------------------------
(* The rest of the task's interface.                                       *)

\* Mutants: the limit is missed by one; attempts are not counted.
ServeReconnectOffByOne(o) ==
  IF o.attempts > MaxReconnects
    THEN [o EXCEPT !.halted = TRUE]
    ELSE [o EXCEPT !.attempts = @ + 1]

ServeReconnectUncounted(o) ==
  IF o.attempts = MaxReconnects THEN [o EXCEPT !.halted = TRUE] ELSE o

\* The branch while not connected: the other bits are dropped.
ServeReconnect(o) ==
  IF o.attempts = MaxReconnects
    THEN [o EXCEPT !.halted = TRUE]
    ELSE [o EXCEPT !.attempts = @ + 1]

\* OCPP_ConnectionStateChanged_Cb
ConnectionStateChanged(o, is_connected) ==
  IF is_connected
    THEN [o EXCEPT !.connected = TRUE, !.downSent = FALSE, !.attempts = 0]
    ELSE [o EXCEPT !.connected = FALSE]

\* What EVSE_OCPP_GetAuthResponse with timeout 0 returns: token is the binary
\* semaphore, late tells that more than EVSE_OCPP_AUTH_TIMEOUT_S have passed.
GetAuthResponse(o, token, late) ==
  CASE ~o.up            -> "None"
    [] o.up /\ token    -> IF o.authorized THEN "Accept" ELSE "Reject"
    [] o.up /\ ~token   -> IF o.asked /\ late THEN "Reject" ELSE "None"
=============================================================================
