-------------------------------- MODULE Evse --------------------------------
(***************************************************************************)
(* The station: the charging task running the J1772 stack, the OCPP task,  *)
(* the thread in which libocpp runs callbacks, the websocket, the EV and   *)
(* the CSMS.  The tasks share the OCPP event bits, the semaphore and the   *)
(* statics of EVSE_Ocpp.cpp.                                               *)
(*                                                                         *)
(* The charging task has the highest priority of the three on one core: a  *)
(* pass of its loop is a step, and may come between any two blocks of the  *)
(* OCPP task and between any two statements of a callback.                 *)
(***************************************************************************)
EXTENDS Iec61851, Ocpp

CONSTANTS
  PilotStates,   \* the pilot states the EV and the line go through
  MaxMoves,      \* bound: changes of the pilot line
  MaxLosses,     \* bound: losses of the connection to the CSMS or the network
  MaxRemotes     \* bound: remote start and stop requests of the CSMS

ASSUME EvseAssumption ==
  /\ PilotStates \subseteq CpStates
  /\ MaxMoves \in Nat /\ MaxLosses \in Nat /\ MaxRemotes \in Nat

\* DataSigned alone never ends a transaction: its stop condition is constantly false.
ASSUME StopPointsAssumption == TxStopPoints \ {"DataSigned"} # {}

VARIABLES
  j,          \* the struct of the J1772 stack
  line,       \* what read_control_pilot would return now
  o,          \* the state of the OCPP task
  bits,       \* its event bits
  todo,       \* the bits it has taken and not yet served
  token,      \* the binary semaphore that announces an answer of the CSMS
  requests,   \* id token requests the CSMS has not answered
  reply,      \* the callback of an answer: not running, or what it did last
  net,        \* the websocket
  boot,       \* the CSMS has not accepted the BootNotification yet, or its answer was
              \* received, or OCPP_BootNotification_Cb has handled it
  used,       \* how much of each bound was used
  opened,     \* history: transactions opened so far
  grants,     \* history: answers "Accept" the stack has consumed so far
  session,    \* history: whether an EV was announced to the OCPP task and did not leave,
              \* and whether the stack consumed an "Accept" since
  late,       \* history: the EV at the outlet came after the OCPP task had stopped
  lapsed      \* history: the transaction of the living handler was ended while the
              \* handler did not hold an acceptance

charging == <<j, line>>
ocpp     == <<o, bits, todo>>
csms     == <<requests, reply, net, boot>>
history  == <<opened, grants, session, late, lapsed>>
vars     == <<charging, ocpp, token, csms, used, history>>

NetStates == {"off", "connecting", "open", "closing", "closed", "waiting"}
Bounds    == [moves |-> MaxMoves, losses |-> MaxLosses, remotes |-> MaxRemotes]
One(condition) == IF condition THEN 1 ELSE 0
Use(what) == used[what] < Bounds[what] /\ used' = [used EXCEPT ![what] = @ + 1]

TypeOK ==
  /\ j \in J1772Type /\ line \in CpStates
  /\ o \in OcppType /\ bits \subseteq OcppEvents /\ todo \subseteq SessionEvents
  /\ token \in BOOLEAN /\ requests \in Nat
  /\ reply \in {"idle", "written", "posted"} /\ net \in NetStates
  /\ boot \in {"awaited", "received", "handled"}
  /\ opened \in Nat /\ grants \in Nat /\ late \in BOOLEAN /\ lapsed \in BOOLEAN
  /\ session \in [plugged : BOOLEAN, granted : BOOLEAN]

Init ==
  /\ j = InitStruct /\ line = "A"
  /\ o = InitOcpp /\ bits = {} /\ todo = {} /\ token = FALSE
  /\ requests = 0 /\ reply = "idle" /\ net = "off" /\ boot = "awaited"
  /\ used = [moves |-> 0, losses |-> 0, remotes |-> 0]
  /\ opened = 0 /\ grants = 0 /\ late = FALSE /\ lapsed = FALSE
  /\ session = [plugged |-> FALSE, granted |-> FALSE]

\* EVSE_OCPP_SetEvent, for any events: they are lost before EVSE_OCPP_Init.
SetEvents(events) == bits' = IF o.up THEN bits \cup events ELSE bits
-----------------------------------------------------------------------------
(* The charging task and the EV.                                           *)

\* A pass of the J1772 loop; in state B it polls for the answer of the CSMS.
Pass ==
  \E load \in Loads, timedOut \in BOOLEAN :
    LET polls  == PollsAuth(j, line)
        answer == IF polls THEN GetAuthResponse(o, token, timedOut) ELSE "None"
    IN  /\ j' = LoopEvse(j, [cp |-> line, answer |-> answer, load |-> load,
                             due |-> TRUE, expired |-> TRUE])
        /\ token' = (token /\ ~(polls /\ o.up))
        /\ o' = [o EXCEPT !.asked = @ /\ answer = "None"]
        /\ grants' = grants + One(answer = "Accept")
        /\ SetEvents(j'.raised)
        /\ session' = [plugged |-> /\ "EvDisconnected" \notin j'.raised
                                   /\ session.plugged \/ "EvConnected" \in j'.raised,
                       granted |-> /\ "EvDisconnected" \notin j'.raised
                                   /\ session.granted \/ answer = "Accept"]
        /\ late' = /\ "EvDisconnected" \notin j'.raised
                   /\ late \/ ("EvConnected" \in j'.raised /\ o.halted)
        /\ UNCHANGED <<line, todo, csms, used, opened, lapsed>>

MovePilot(s) ==
  /\ s # line /\ line' = s
  /\ Use("moves")
  /\ UNCHANGED <<j, ocpp, token, csms, history>>
-----------------------------------------------------------------------------
(* The OCPP task.                                                          *)

\* EVSE_OCPP_Init once the network is up; the task starts to connect.
OcppInit ==
  /\ ~o.up
  /\ o' = [o EXCEPT !.up = TRUE]
  /\ net' = "connecting"
  /\ UNCHANGED <<charging, bits, todo, token, requests, reply, boot, used, history>>

\* The wait at the head of the loop takes all bits; not connected, all but the
\* reconnect bit are dropped.
TakeEvents ==
  /\ o.up /\ ~o.halted /\ todo = {} /\ bits # {}
  /\ bits' = {}
  /\ IF o.connected
       THEN todo' = bits \ {"Reconnect"} /\ UNCHANGED <<o, net>>
       ELSE /\ UNCHANGED todo
            /\ IF "Reconnect" \in bits
                 THEN /\ o' = ServeReconnect(o)
                      /\ net' = IF o'.halted THEN "off" ELSE "connecting"
                 ELSE UNCHANGED <<o, net>>
  /\ UNCHANGED <<charging, token, requests, reply, boot, used, history>>

\* Websocket::disconnect of a socket that is connected or tries to be.
Disconnect(n) == IF n \in {"connecting", "open"} THEN "closing" ELSE n

\* One block of the loop.
ServeEvent(e) ==
  /\ IsNext(e, todo)
  /\ todo' = todo \ {e}
  /\ o' = Serve(o, e)
  /\ requests' = requests + One(e = "AuthNeeded" /\ o.plugged /\ SendsIdToken(o))
  /\ j' = IF e = "StopRemote" /\ o.handler.alive THEN StopCharging(j, TRUE) ELSE j
  /\ opened' = opened + One(~o.tx /\ o'.tx)
  /\ lapsed' = /\ o'.handler.alive
               /\ lapsed \/ (o.tx /\ ~o'.tx /\ "authorized" \notin o.handler.conditions)
  /\ net' = IF e = "NetworkDown" /\ ~o.downSent THEN Disconnect(net) ELSE net
  /\ UNCHANGED <<line, bits, token, reply, boot, used, grants, session, late>>
-----------------------------------------------------------------------------
(* The CSMS, through the callbacks of libocpp on the receive thread, one   *)
(* after the other.  Until the station is accepted libocpp holds its       *)
(* transaction messages back and refuses the requests of the CSMS.         *)

\* The CSMS accepts the station, once; the answer waits for the receive thread.
BootAnswered ==
  /\ net = "open" /\ boot = "awaited"
  /\ boot' = "received"
  /\ UNCHANGED <<charging, ocpp, token, requests, reply, net, used, history>>

\* OCPP_BootNotification_Cb.  The connection may be lost or closed by now: the callback
\* of the loss is on another thread.
BootNotification_Cb ==
  /\ boot = "received"
  /\ boot' = "handled"
  /\ o' = ConnectionStateChanged(o, TRUE)
  /\ UNCHANGED <<charging, bits, todo, token, requests, reply, net, used, history>>

\* OCPP_TransactionEventResponse_Cb, statement by statement: the verdict, the
\* semaphore, the event.
Answer(accepted) ==
  /\ net = "open" /\ boot = "handled" /\ requests > 0 /\ reply = "idle"
  /\ requests' = requests - 1
  /\ o' = [o EXCEPT !.authorized = accepted]
  /\ reply' = "written"
  /\ UNCHANGED <<charging, bits, todo, token, net, boot, used, history>>

PostAnswer ==
  /\ reply = "written"
  /\ token' = TRUE
  /\ reply' = "posted"
  /\ UNCHANGED <<charging, ocpp, requests, net, boot, used, history>>

AnnounceAnswer ==
  /\ reply = "posted"
  /\ SetEvents({"EvAuthorized"})
  /\ reply' = "idle"
  /\ UNCHANGED <<charging, o, todo, token, requests, net, boot, used, history>>

\* OCPP_RemoteStartTransaction_Cb for a token the CSMS has authorized itself.
RemoteStart ==
  /\ net = "open" /\ boot = "handled" /\ reply = "idle" /\ o.plugged
  /\ SetEvents({"StartRemote"})
  /\ Use("remotes")
  /\ UNCHANGED <<charging, o, todo, token, csms, history>>

\* OCPP_StopTransaction_Cb, for the transaction libocpp has open.
RemoteStop ==
  /\ net = "open" /\ boot = "handled" /\ reply = "idle" /\ o.tx
  /\ SetEvents({"StopRemote"})
  /\ Use("remotes")
  /\ UNCHANGED <<charging, o, todo, token, csms, history>>
-----------------------------------------------------------------------------
(* The websocket and the network.                                          *)

Connect ==
  /\ net = "connecting"
  /\ net' = "open"
  /\ o' = ConnectionStateChanged(o, TRUE)
  /\ UNCHANGED <<charging, bits, todo, token, requests, reply, boot, used, history>>

\* The attempts of the websocket itself are exhausted.
GiveUp ==
  /\ net = "connecting"
  /\ net' = "closed"
  /\ o' = ConnectionStateChanged(o, FALSE)
  /\ UNCHANGED <<charging, bits, todo, token, requests, reply, boot, used, history>>

\* The server goes away; the websocket tries to connect again by itself.
Lose ==
  /\ net = "open"
  /\ net' = "connecting"
  /\ o' = ConnectionStateChanged(o, FALSE)
  /\ Use("losses")
  /\ UNCHANGED <<charging, bits, todo, token, requests, reply, boot, history>>

\* The close that the station asked for is done.
Closed ==
  /\ net = "closing"
  /\ net' = "closed"
  /\ o' = ConnectionStateChanged(o, FALSE)
  /\ UNCHANGED <<charging, bits, todo, token, requests, reply, boot, used, history>>

\* The timer that on_websocket_stopped_connecting starts; its 30 s outlast a callback
\* that waits or runs when it is started.
ReconnectTimer ==
  /\ net = "closed" /\ boot # "received"
  /\ net' = "waiting"
  /\ SetEvents({"Reconnect"})
  /\ UNCHANGED <<charging, o, todo, token, requests, reply, boot, used, history>>

\* The connectivity task finds that the network is down.
NetworkDown ==
  /\ SetEvents({"NetworkDown"})
  /\ Use("losses")
  /\ UNCHANGED <<charging, o, todo, token, csms, history>>

Next ==
  \/ Pass
  \/ \E s \in PilotStates : MovePilot(s)
  \/ OcppInit \/ TakeEvents
  \/ \E e \in SessionEvents : ServeEvent(e)
  \/ BootAnswered \/ BootNotification_Cb
  \/ \E a \in BOOLEAN : Answer(a)
  \/ PostAnswer \/ AnnounceAnswer \/ RemoteStart \/ RemoteStop
  \/ Connect \/ GiveUp \/ Lose \/ Closed \/ ReconnectTimer \/ NetworkDown

Spec == Init /\ [][Next]_vars

\* The tasks and the receive thread are scheduled, a CSMS that has accepted the station
\* answers while it is connected, a connection attempt ends, and the timer fires.
FairSpec ==
  /\ Spec
  /\ WF_vars(Pass)
  /\ WF_vars(TakeEvents \/ \E e \in SessionEvents : ServeEvent(e))
  /\ WF_vars(BootNotification_Cb)
  /\ WF_vars(\E a \in BOOLEAN : Answer(a))
  /\ WF_vars(PostAnswer \/ AnnounceAnswer)
  /\ WF_vars(Connect \/ GiveUp)
  /\ WF_vars(Closed)
  /\ WF_vars(ReconnectTimer)
-----------------------------------------------------------------------------
(* Properties.                                                             *)

\* The statics of the OCPP task and its handler describe the same session at
\* every point where another task may look: an EV is plugged in exactly when a
\* handler lives, no charging without it, and the transaction that libocpp keeps
\* open is exactly the started one of that handler: when the handler is deleted
\* no transaction is left behind that nobody will ever end.
NoOrphanTransaction ==
  /\ o.plugged <=> o.handler.alive
  /\ o.started => o.plugged
  /\ o.tx <=> o.handler.data = "started"

\* However answers, plug cycles, lost connections and callbacks interleave, the
\* stack never consumes more grants than transactions were opened: each one asks
\* once, each answer posts the semaphore once, and a poll takes it.
OneGrantPerTransaction ==
  grants + requests + One(token) + One(reply = "written") <= opened

\* The inductive invariant behind both: what the task knows of its session, and
\* the grants in flight, counting the one an open transaction may still ask for.
\* The handler is only told of authorization, connection and energy transfer.
Observed == {"authorized", "ev_connected", "energy_transfered"}
SessionInv(r) ==
  /\ r \in OcppType
  /\ r.plugged <=> r.handler.alive
  /\ r.started => r.plugged
  /\ r.tx <=> r.handler.data = "started"
  /\ r.idSent => r.tx
  /\ r.handler.data # "null" => r.handler.alive
  /\ r.handler.conditions \subseteq Observed
GrantInv ==
  /\ grants \in Nat /\ requests \in Nat /\ opened \in Nat /\ token \in BOOLEAN
  /\ grants + requests + One(token) + One(reply = "written") + One(o.tx /\ ~o.idSent)
       <= opened
IInv == SessionInv(o) /\ GrantInv

\* The transactions of libocpp follow the ledger the CSMS relies on.
Ledger == INSTANCE TxLedger WITH open <- o.tx, reported <- o.idSent
LedgerSpec == Ledger!Spec

\* The contactor closes only in a session in which the stack has consumed an answer
\* "Accept", once, and every "Accept" ever consumed, by whichever EV, is matched by a
\* transaction opened before it.  It is not said that the answer was meant for the EV
\* that is there: one that its EV did not wait for stays in the semaphore for the next.
Paid == INSTANCE PaidSession
          WITH plugged <- session.plugged, granted <- session.granted,
               power <- j.contactor = "closed"
EnergyIsPaid == Paid!PaidSpec

\* The OCPP task takes itself for connected, because the answer to the BootNotification
\* was handled after the loss, and it has dropped the reconnect bit: nothing is left that
\* would tell it otherwise.
Deaf == o.connected /\ net = "waiting" /\ "Reconnect" \notin bits

\* README, Limitation: a station that cannot reach the CSMS any more gives up, whatever
\* callbacks and the counter of the attempts do meanwhile; unless it is deaf.
OfflineEndsInHalt == (<>o.up /\ <>[](net # "open")) => <>[](o.halted \/ Deaf)

\* An EV that comes while the connection to the CSMS is up and no earlier
\* disconnection waits to be served, and that stays, is granted energy by a CSMS
\* that accepts the station and the EV, whatever else the tasks are doing.  (A
\* disconnection still waiting is served after the connection of the new EV, and ends
\* its session.)
EvIsGranted ==
  (/\ <>(boot = "handled")
   /\ [](line # "A" => net = "open" /\ "EvDisconnected" \notin bits \cup todo)
   /\ [](reply = "written" => o.authorized)
   /\ <>[](line = "B")) => <>(grants > 0)

\* EVSE_Ocpp.cpp, when the task stops: "Subsequent charging sessions will not be
\* authorized!"
NoSessionAfterHalt == late => j.state \notin {"B2", "C2", "D2"}

\* process_charging_ended reads the transaction data in its last line without a test.
\* A stop, local or remote, the first or a later one, finds it unless the transaction of
\* the session was ended while the handler did not hold an acceptance: no order of bits,
\* no stop and no loss of the connection takes it while the handler holds an acceptance.
\* (A start that is served before the acceptance, or a stop after a refusal, ends the
\* transaction early; the next stop then reads through a null pointer.)
StopFindsData ==
  \A e \in {"ChargingStopped", "StopRemote"} :
    IsNext(e, todo) /\ EndsTransfer(o, e) /\ o.handler.data = "null" => lapsed
=============================================================================
