---------------------------- MODULE Evse_proofs -----------------------------
(***************************************************************************)
(* Proofs about the station.  Two facts are carried through every step:    *)
(* SessionInv, by which statics, handler and libocpp describe the same     *)
(* session, and GrantInv, which counts the grants in flight.  Each block   *)
(* of the OCPP task is shown to keep the first and to make at most one     *)
(* step of the ledger; from the ledger step follows what happens to the    *)
(* count.                                                                  *)
(***************************************************************************)
EXTENDS Evse, Iec61851_proofs

\* The three things a block may do to the transaction of libocpp, or nothing.
Unmoved(r, q) == q.tx = r.tx /\ q.idSent = r.idSent
Opens(r, q)   == ~r.tx /\ q.tx /\ ~q.idSent
Ends(r, q)    == r.tx /\ ~q.tx /\ ~q.idSent
Asks(r, q)    == r.tx /\ ~r.idSent /\ q.tx /\ q.idSent

\* The part of SessionInv that speaks of the handler and the transaction only.
HandlerInv(r) ==
  /\ r \in OcppType
  /\ r.tx <=> r.handler.data = "started"
  /\ r.idSent => r.tx
  /\ r.handler.data # "null" => r.handler.alive
  /\ r.handler.conditions \subseteq Observed

\* The statics and the life of the handler are left alone.
SameEv(r, q) ==
  q.plugged = r.plugged /\ q.started = r.started /\ q.handler.alive = r.handler.alive

\* What a block that only submits handler events does.
Moved(r, q)   == Unmoved(r, q) \/ Opens(r, q) \/ Ends(r, q)
Handled(r, q) == SessionInv(q) /\ Moved(r, q)
-----------------------------------------------------------------------------
(* The transaction handler.                                                *)

\* submit_event keeps the handler's type, its life and its transaction data, and
\* of the conditions the station observes it never leaves.
LEMMA SubmitKeeps ==
  ASSUME NEW h \in HandlerType,
         NEW e \in {"EV_CONNECTED", "EV_DISCONNECTED", "AUTHORIZED", "DEAUTHORIZED",
                    "ENERGY_TRANSFER_STARTED", "ENERGY_TRANSFER_STOPPED"},
         h.conditions \subseteq Observed
  PROVE  /\ submit_event(h, e) \in HandlerType
         /\ submit_event(h, e).alive = h.alive
         /\ submit_event(h, e).data = h.data
         /\ submit_event(h, e).conditions \subseteq Observed
<1> DEFINE c == Submitted(h.conditions, e)
<1>1. c \subseteq Observed
  BY DEF Submitted, Observed
<1>2. c \in SUBSET Conditions
  BY <1>1 DEF Observed, Conditions
<1> HIDE DEF c
<1>3. submit_event(h, e) = [h EXCEPT !.conditions = c]
  BY DEF submit_event, c
<1> QED
  BY <1>1, <1>2, <1>3 DEF HandlerType

\* Once the EV is deauthorized and gone nothing the station observes is left: a
\* started transaction stops, and one that is not started does not start.
LEMMA GoneStops ==
  ASSUME NEW h \in HandlerType, h.conditions \subseteq Observed
  PROVE  LET g == submit_event(submit_event(h, "DEAUTHORIZED"), "EV_DISCONNECTED")
         IN  /\ h.data = "started" => Effect(g) = "STOP_TRANSACTION"
             /\ h.data # "started" => Effect(g) = "NONE"
<1> DEFINE d == submit_event(h, "DEAUTHORIZED")
           g == submit_event(d, "EV_DISCONNECTED")
<1>1. d \in HandlerType /\ d.data = h.data /\ d.conditions = h.conditions \ {"authorized"}
  BY DEF submit_event, Submitted, HandlerType, Conditions
<1> HIDE DEF d
<1>2. /\ g.data = d.data
      /\ g.conditions = d.conditions \ {"ev_connected", "energy_transfered"}
  BY <1>1 DEF submit_event, Submitted, HandlerType, Conditions
<1> HIDE DEF g
<1>3. g.conditions = {} /\ g.data = h.data
  BY <1>1, <1>2 DEF Observed
<1>4. ASSUME NEW p \in TxStartStopPoint
      PROVE  ~(Needs(p) \subseteq g.conditions)
  <2>1. Needs(p) # {}
    BY DEF Needs, TxStartStopPoint
  <2> QED
    BY <2>1, <1>3
<1>5. ~should_transaction_start(g)
  BY <1>4, TxPointsAssumption DEF should_transaction_start, is_start_condition_fullfilled
<1>6. PICK p \in TxStopPoints : p # "DataSigned"
  BY StopPointsAssumption
<1>7. is_stop_condition_fullfilled(g.conditions, p)
  BY <1>4, <1>6, TxPointsAssumption DEF is_stop_condition_fullfilled
<1>8. should_transaction_stop(g) <=> h.data = "started"
  BY <1>3, <1>6, <1>7 DEF should_transaction_stop
<1>9. /\ h.data = "started" => Effect(g) = "STOP_TRANSACTION"
      /\ h.data # "started" => Effect(g) = "NONE"
  BY <1>5, <1>8 DEF Effect
<1> QED
  BY <1>9 DEF d, g
-----------------------------------------------------------------------------
(* The functions the blocks share.                                         *)

\* process_tx_event_effect starts only data that is new and resets only data that
\* is started, so handler and libocpp stay together.
LEMMA EffectHandled ==
  ASSUME NEW r, HandlerInv(r)
  PROVE  LET q == process_tx_event_effect(r)
         IN  HandlerInv(q) /\ Moved(r, q) /\ SameEv(r, q)
<1> DEFINE q == process_tx_event_effect(r)
<1>1. CASE Effect(r.handler) = "START_TRANSACTION"
  <2>1. r.handler.data = "new"
    BY <1>1 DEF Effect, should_transaction_start
  <2> DEFINE h == [r.handler EXCEPT !.data = "started"]
  <2>2. q = [r EXCEPT !.handler = h, !.tx = TRUE, !.idSent = FALSE]
    BY <1>1 DEF process_tx_event_effect, on_transaction_started, HandlerInv, OcppType, HandlerType
  <2>3. /\ h \in HandlerType /\ h.alive = r.handler.alive
        /\ h.data = "started" /\ h.conditions = r.handler.conditions
    BY DEF HandlerInv, OcppType, HandlerType
  <2> HIDE DEF h
  <2>4. /\ q \in OcppType /\ q.handler = h /\ q.tx /\ ~q.idSent
        /\ q.plugged = r.plugged /\ q.started = r.started
    BY <2>2, <2>3 DEF HandlerInv, OcppType
  <2> QED
    BY <2>1, <2>3, <2>4 DEF HandlerInv, Moved, Opens, SameEv
<1>2. CASE Effect(r.handler) = "STOP_TRANSACTION"
  <2>1. r.handler.data = "started"
    BY <1>2 DEF Effect, should_transaction_stop
  <2> DEFINE h == [r.handler EXCEPT !.data = "null"]
             f == on_transaction_finished(r)
  <2>2. /\ f \in OcppType /\ f.handler = r.handler /\ ~f.tx /\ ~f.idSent
        /\ f.plugged = r.plugged /\ f.started = r.started
    BY DEF on_transaction_finished, HandlerInv, OcppType
  <2> HIDE DEF f
  <2>3. q = [f EXCEPT !.handler = h]
    BY <1>2, <2>2 DEF process_tx_event_effect, reset_transaction_data, OcppType, f
  <2>4. /\ h \in HandlerType /\ h.alive = r.handler.alive
        /\ h.data = "null" /\ h.conditions = r.handler.conditions
    BY DEF HandlerInv, OcppType, HandlerType
  <2> HIDE DEF h
  <2>5. /\ q \in OcppType /\ q.handler = h /\ ~q.tx /\ ~q.idSent
        /\ q.plugged = r.plugged /\ q.started = r.started
    BY <2>2, <2>3, <2>4 DEF OcppType
  <2> QED
    BY <2>1, <2>4, <2>5 DEF HandlerInv, Moved, Ends, SameEv
<1>3. CASE Effect(r.handler) \notin {"START_TRANSACTION", "STOP_TRANSACTION"}
  BY <1>3 DEF process_tx_event_effect, Moved, Unmoved, SameEv
<1> QED
  BY <1>1, <1>2, <1>3

\* Submitting an event to the handler keeps the session and moves no transaction.
LEMMA SubmitHandled ==
  ASSUME NEW r, HandlerInv(r),
         NEW e \in {"EV_CONNECTED", "EV_DISCONNECTED", "AUTHORIZED", "DEAUTHORIZED",
                    "ENERGY_TRANSFER_STARTED", "ENERGY_TRANSFER_STOPPED"}
  PROVE  LET q == Submit(r, e)
         IN  HandlerInv(q) /\ Unmoved(r, q) /\ SameEv(r, q)
<1> DEFINE h == submit_event(r.handler, e)
<1>1. /\ h \in HandlerType /\ h.alive = r.handler.alive /\ h.data = r.handler.data
      /\ h.conditions \subseteq Observed
  BY SubmitKeeps DEF HandlerInv, OcppType
<1>2. Submit(r, e) = [r EXCEPT !.handler = h]
  BY DEF Submit
<1> HIDE DEF h
<1> QED
  BY <1>1, <1>2 DEF HandlerInv, OcppType, Unmoved, SameEv

\* An event followed by the processing of its effect.
LEMMA ProcessHandled ==
  ASSUME NEW r, HandlerInv(r),
         NEW e \in {"EV_CONNECTED", "EV_DISCONNECTED", "AUTHORIZED", "DEAUTHORIZED",
                    "ENERGY_TRANSFER_STARTED", "ENERGY_TRANSFER_STOPPED"}
  PROVE  LET q == process_tx_event_effect(Submit(r, e))
         IN  HandlerInv(q) /\ Moved(r, q) /\ SameEv(r, q)
<1> DEFINE s == Submit(r, e)
           q == process_tx_event_effect(s)
<1>1. HandlerInv(s) /\ Unmoved(r, s) /\ SameEv(r, s)
  BY SubmitHandled
<1> HIDE DEF s
<1>2. HandlerInv(q) /\ Moved(s, q) /\ SameEv(s, q)
  BY <1>1, EffectHandled
<1> HIDE DEF q
<1>3. Moved(r, q) /\ SameEv(r, q)
  BY <1>1, <1>2 DEF Moved, Unmoved, Opens, Ends, SameEv
<1> QED
  BY <1>2, <1>3 DEF s, q

\* SessionInv is HandlerInv and what the statics add to it.
LEMMA SessionIsHandler ==
  ASSUME NEW r
  PROVE  /\ SessionInv(r) <=> /\ HandlerInv(r)
                              /\ r.plugged <=> r.handler.alive
                              /\ r.started => r.plugged
         /\ \A q : SessionInv(r) /\ HandlerInv(q) /\ SameEv(r, q) => SessionInv(q)
BY DEF SessionInv, HandlerInv, SameEv
-----------------------------------------------------------------------------
(* The blocks of the loop.                                                 *)

\* A session is opened only where no handler lives, hence where no transaction is
\* open.
LEMMA ConnectedHandled ==
  ASSUME NEW r, SessionInv(r)
  PROVE  Handled(r, ServeConnected(r))
<1>1. CASE r.handler.alive
  BY <1>1 DEF ServeConnected, Handled, Moved, Unmoved
<1>2. CASE ~r.handler.alive
  <2> DEFINE h == add_transaction_data(NewHandler)
             s == [r EXCEPT !.handler = h]
             q == process_tx_event_effect(Submit(s, "EV_CONNECTED"))
  <2>1. /\ h \in HandlerType /\ h.alive /\ h.data = "new" /\ h.conditions = {}
    BY DEF add_transaction_data, NewHandler, HandlerType
  <2>2. r \in OcppType /\ ~r.tx /\ ~r.idSent
    BY <1>2 DEF SessionInv, OcppType, HandlerType
  <2>3. ServeConnected(r) = [q EXCEPT !.plugged = TRUE]
    BY <1>2 DEF ServeConnected
  <2> HIDE DEF h
  <2>4. HandlerInv(s) /\ Unmoved(r, s) /\ s.handler.alive
    BY <2>1, <2>2 DEF HandlerInv, OcppType, Unmoved
  <2> HIDE DEF s
  <2>5. HandlerInv(q) /\ Moved(s, q) /\ q.handler.alive
    BY <2>4, ProcessHandled DEF SameEv
  <2> HIDE DEF q
  <2>6. SessionInv([q EXCEPT !.plugged = TRUE]) /\ Moved(s, [q EXCEPT !.plugged = TRUE])
    BY <2>5 DEF HandlerInv, SessionInv, OcppType, Moved, Unmoved, Opens, Ends
  <2> QED
    BY <2>3, <2>4, <2>6 DEF Handled, Moved, Unmoved, Opens, Ends
<1> QED
  BY <1>1, <1>2

\* Asking for authorization reports the id token of an open transaction once.
LEMMA AuthNeededAsks ==
  ASSUME NEW r, SessionInv(r)
  PROVE  LET q == ServeAuthNeeded(r)
         IN  /\ SessionInv(q)
             /\ r.plugged /\ SendsIdToken(r) => Asks(r, q)
             /\ ~(r.plugged /\ SendsIdToken(r)) => Unmoved(r, q)
BY DEF ServeAuthNeeded, on_authorized, SendsIdToken, SessionInv, OcppType, Asks, Unmoved

\* The answer of the CSMS moves no transaction: its effect is not looked at.
LEMMA AuthorizedHandled ==
  ASSUME NEW r, SessionInv(r)
  PROVE  Handled(r, ServeAuthorized(r))
<1>1. CASE r.handler.alive
  BY <1>1, SubmitHandled, SessionIsHandler DEF ServeAuthorized, Handled, Moved
<1>2. CASE ~r.handler.alive
  BY <1>2 DEF ServeAuthorized, Handled, Moved, Unmoved
<1> QED
  BY <1>1, <1>2

\* Writing session_started keeps a session that is plugged in.
LEMMA SetStarted ==
  ASSUME NEW r, NEW q, NEW b \in BOOLEAN, Handled(r, q), q.plugged \/ ~b
  PROVE  Handled(r, [q EXCEPT !.started = b])
BY DEF Handled, Moved, SessionInv, OcppType, Unmoved, Opens, Ends

LEMMA StartedHandled ==
  ASSUME NEW r, SessionInv(r)
  PROVE  Handled(r, ServeStarted(r)) /\ Handled(r, ServeStartRemote(r))
<1> DEFINE q == process_charging_started(r)
<1>1. Handled(r, q) /\ q.plugged = r.plugged
  BY ProcessHandled, SessionIsHandler DEF Handled, SameEv, process_charging_started
<1> HIDE DEF q
<1>2. Handled(r, r)
  BY DEF Handled, Moved, Unmoved
<1>3. r.plugged => Handled(r, [q EXCEPT !.started = TRUE])
  BY <1>1, SetStarted
<1> QED
  BY <1>1, <1>2, <1>3 DEF ServeStarted, ServeStartRemote, q

LEMMA StoppedHandled ==
  ASSUME NEW r, SessionInv(r)
  PROVE  Handled(r, ServeStopped(r)) /\ Handled(r, ServeStopRemote(r))
<1> DEFINE q == process_charging_ended(r)
<1>1. Handled(r, q)
  BY ProcessHandled, SessionIsHandler DEF Handled, process_charging_ended
<1> HIDE DEF q
<1>2. Handled(r, r)
  BY DEF Handled, Moved, Unmoved
<1>3. Handled(r, [q EXCEPT !.started = FALSE])
  BY <1>1, SetStarted
<1> QED
  BY <1>1, <1>2, <1>3 DEF ServeStopped, ServeStopRemote, q

\* The handler is deleted only after its transaction was ended.
LEMMA DisconnectedHandled ==
  ASSUME NEW r, SessionInv(r)
  PROVE  Handled(r, ServeDisconnected(r))
<1>1. CASE r.handler.alive
  <2> DEFINE s == Submit(Submit(r, "DEAUTHORIZED"), "EV_DISCONNECTED")
             q == process_tx_event_effect(s)
             t == reset_session_state([q EXCEPT !.handler = NoHandler])
  <2>1. HandlerInv(Submit(r, "DEAUTHORIZED")) /\ Unmoved(r, Submit(r, "DEAUTHORIZED"))
    BY SubmitHandled, SessionIsHandler
  <2>2. HandlerInv(s) /\ Unmoved(r, s)
    BY <2>1, SubmitHandled DEF Unmoved
  <2>3. HandlerInv(q) /\ Moved(s, q)
    BY <2>2, EffectHandled
  <2>4. ~q.tx
    <3>1. /\ r.handler.data = "started" => Effect(s.handler) = "STOP_TRANSACTION"
          /\ r.handler.data # "started" => Effect(s.handler) = "NONE"
      <4>1. r.handler \in HandlerType /\ r.handler.conditions \subseteq Observed
        BY DEF SessionInv, OcppType
      <4>2. s.handler
              = submit_event(submit_event(r.handler, "DEAUTHORIZED"), "EV_DISCONNECTED")
        BY <2>1 DEF Submit, HandlerInv, SessionInv, OcppType
      <4> QED
        BY <4>1, <4>2, GoneStops
    <3>2. s \in OcppType /\ s.tx = r.tx /\ (r.tx <=> r.handler.data = "started")
      BY <2>2 DEF HandlerInv, SessionInv, Unmoved
    <3> HIDE DEF s
    <3> QED
      BY <3>1, <3>2 DEF process_tx_event_effect, on_transaction_finished, OcppType
  <2> HIDE DEF s, q
  <2>5. SessionInv(t) /\ Unmoved(q, t)
    BY <2>3, <2>4 DEF reset_session_state, NoHandler, HandlerInv, SessionInv, OcppType,
                      HandlerType, Unmoved, Observed
  <2>6. ServeDisconnected(r) = t
    BY <1>1 DEF ServeDisconnected, SessionInv, s, q
  <2> HIDE DEF t
  <2> QED
    BY <2>2, <2>3, <2>5, <2>6 DEF Handled, Moved, Unmoved, Opens, Ends
<1>2. CASE ~r.handler.alive
  BY <1>2 DEF ServeDisconnected, reset_session_state, Handled, Moved, SessionInv, OcppType, Unmoved
<1> QED
  BY <1>1, <1>2

\* The events the loop serves.
LEMMA Served ==
  SessionEvents = {"EvConnected", "AuthNeeded", "EvAuthorized", "ChargingStarted",
                   "StartRemote", "ChargingStopped", "StopRemote", "EvDisconnected",
                   "NetworkDown"}
<1>1. Len(ServingOrder) = 9
  BY DEF ServingOrder
<1>2. 1 .. 9 = {1, 2, 3, 4, 5, 6, 7, 8, 9}
  OBVIOUS
<1> QED
  BY <1>1, <1>2 DEF SessionEvents, ServingOrder

\* When a block of the loop sends a request for the id token.
Sends(r, e) == e = "AuthNeeded" /\ r.plugged /\ SendsIdToken(r)

\* Every block keeps the session and makes at most one step of the ledger.
LEMMA ServeMoves ==
  ASSUME NEW r, SessionInv(r), NEW e \in SessionEvents
  PROVE  /\ SessionInv(Serve(r, e))
         /\ Sends(r, e) => Asks(r, Serve(r, e))
         /\ ~Sends(r, e) => Moved(r, Serve(r, e))
<1>1. CASE e = "AuthNeeded"
  <2>1. Serve(r, e) = ServeAuthNeeded(r)
    BY <1>1 DEF Serve
  <2> QED
    BY <1>1, <2>1, AuthNeededAsks DEF Sends, Moved
<1>2. CASE e = "NetworkDown"
  <2>1. Serve(r, e) = ServeNetworkDown(r)
    BY <1>2 DEF Serve
  <2> QED
    BY <1>2, <2>1 DEF ServeNetworkDown, SessionInv, OcppType, Sends, Moved, Unmoved
<1>3. CASE e \notin {"AuthNeeded", "NetworkDown"}
  <2>1. Handled(r, Serve(r, e))
    BY <1>3, Served, ConnectedHandled, AuthorizedHandled, StartedHandled, StoppedHandled,
       DisconnectedHandled DEF Serve
  <2> QED
    BY <1>3, <2>1 DEF Handled, Sends
<1> QED
  BY <1>1, <1>2, <1>3
-----------------------------------------------------------------------------
(* The steps of the station.                                               *)

\* Steps that leave session and transaction alone: those of the callbacks, of the
\* websocket and of the reconnection branch only write other statics.
LEMMA OtherStatics ==
  ASSUME SessionInv(o)
  PROVE  /\ \A b \in BOOLEAN : LET q == ConnectionStateChanged(o, b)
                               IN  SessionInv(q) /\ Unmoved(o, q)
         /\ LET q == ServeReconnect(o) IN SessionInv(q) /\ Unmoved(o, q)
         /\ \A b \in BOOLEAN : LET q == [o EXCEPT !.authorized = b]
                               IN  SessionInv(q) /\ Unmoved(o, q)
         /\ LET q == [o EXCEPT !.up = TRUE] IN SessionInv(q) /\ Unmoved(o, q)
         /\ \A b \in BOOLEAN : LET q == [o EXCEPT !.asked = @ /\ b]
                               IN  SessionInv(q) /\ Unmoved(o, q)
<1> USE MaxReconnectsAssumption DEF SessionInv, OcppType, Unmoved
<1>1. ASSUME NEW b \in BOOLEAN
      PROVE  LET q == ConnectionStateChanged(o, b) IN SessionInv(q) /\ Unmoved(o, q)
  <2>1. CASE b
    <3> DEFINE q == ConnectionStateChanged(o, b)
    <3>1. q = [o EXCEPT !.connected = TRUE, !.downSent = FALSE, !.attempts = 0]
      BY <2>1 DEF ConnectionStateChanged
    <3>2. 0 \in 0 .. MaxReconnects
      OBVIOUS
    <3>3. q \in OcppType
      BY <3>1, <3>2
    <3>4. /\ q.plugged = o.plugged /\ q.started = o.started /\ q.handler = o.handler
          /\ q.tx = o.tx /\ q.idSent = o.idSent
      BY <3>1
    <3> HIDE DEF q
    <3>5. SessionInv(q) /\ Unmoved(o, q)
      BY <3>3, <3>4
    <3> QED
      BY <3>5 DEF q
  <2>2. CASE ~b
    BY <2>2 DEF ConnectionStateChanged
  <2> QED
    BY <2>1, <2>2
<1>2. LET q == ServeReconnect(o) IN SessionInv(q) /\ Unmoved(o, q)
  <2>1. CASE o.attempts = MaxReconnects
    BY <2>1 DEF ServeReconnect
  <2>2. CASE o.attempts # MaxReconnects
    <3>1. o.attempts + 1 \in 0 .. MaxReconnects
      BY <2>2
    <3> QED
      BY <2>2, <3>1 DEF ServeReconnect
  <2> QED
    BY <2>1, <2>2
<1>3. ASSUME NEW b \in BOOLEAN
      PROVE  LET q == [o EXCEPT !.authorized = b] IN SessionInv(q) /\ Unmoved(o, q)
  OBVIOUS
<1>4. LET q == [o EXCEPT !.up = TRUE] IN SessionInv(q) /\ Unmoved(o, q)
  OBVIOUS
<1>5. ASSUME NEW b \in BOOLEAN
      PROVE  LET q == [o EXCEPT !.asked = @ /\ b] IN SessionInv(q) /\ Unmoved(o, q)
  OBVIOUS
<1> QED
  BY <1>1, <1>2, <1>3, <1>4, <1>5

\* A poll that finds no token in the semaphore is not told "Accept".
LEMMA AcceptTakesToken ==
  ASSUME NEW r, NEW t \in BOOLEAN, NEW l, GetAuthResponse(r, t, l) = "Accept"
  PROVE  t /\ r.up
BY DEF GetAuthResponse

\* Every step keeps the inductive invariant and makes at most one step of the ledger.
\* For the count: a pass turns a token into a grant, a callback turns a request into
\* a token, a block turns an open transaction that has not asked into a request, and
\* only a new transaction adds to it.
LEMMA NextKeeps ==
  ASSUME IInv, [Next]_vars
  PROVE  IInv' /\ (Moved(o, o') \/ Asks(o, o'))
<1> USE DEF IInv
<1>1. CASE Pass
  <2>1. PICK load \in Loads, timedOut \in BOOLEAN :
          LET polls  == PollsAuth(j, line)
              answer == IF polls THEN GetAuthResponse(o, token, timedOut) ELSE "None"
          IN  /\ token' = (token /\ ~(polls /\ o.up))
              /\ o' = [o EXCEPT !.asked = @ /\ answer = "None"]
              /\ grants' = grants + One(answer = "Accept")
              /\ UNCHANGED <<csms, opened>>
    BY <1>1 DEF Pass
  <2> DEFINE polls  == PollsAuth(j, line)
             answer == IF polls THEN GetAuthResponse(o, token, timedOut) ELSE "None"
  <2>2. SessionInv(o') /\ Unmoved(o, o')
    BY <2>1, OtherStatics
  <2>3. answer = "Accept" => polls /\ token /\ o.up
    BY AcceptTakesToken DEF GrantInv
  <2>4. /\ token' = (token /\ ~(polls /\ o.up)) /\ grants' = grants + One(answer = "Accept")
        /\ requests' = requests /\ reply' = reply /\ opened' = opened
    BY <2>1 DEF csms
  <2> HIDE DEF polls, answer
  <2>5. One(answer = "Accept") + One(token') <= One(token)
    <3>1. CASE answer = "Accept"
      <4>1. token /\ ~token'
        BY <2>3, <2>4, <3>1
      <4> QED
        BY <3>1, <4>1 DEF One
    <3>2. CASE answer # "Accept"
      <4>1. token' => token
        BY <2>4
      <4> QED
        BY <3>2, <4>1 DEF One
    <3> QED
      BY <3>1, <3>2
  <2>6. One(answer = "Accept") \in {0, 1} /\ One(token') \in {0, 1} /\ One(token) \in {0, 1}
    BY DEF One
  <2>7. /\ One(reply = "written")' = One(reply = "written")
        /\ One(o.tx /\ ~o.idSent)' = One(o.tx /\ ~o.idSent)
        /\ One(reply = "written") \in {0, 1} /\ One(o.tx /\ ~o.idSent) \in {0, 1}
    BY <2>2, <2>4 DEF One, Unmoved
  <2>8. token' \in BOOLEAN
    BY <2>4
  <2>9. GrantInv'
    BY <2>4, <2>5, <2>6, <2>7, <2>8 DEF GrantInv
  <2> QED
    BY <2>2, <2>9 DEF Moved
<1>2. ASSUME NEW e \in SessionEvents, ServeEvent(e)
      PROVE  IInv' /\ (Moved(o, o') \/ Asks(o, o'))
  <2>1. /\ o' = Serve(o, e)
        /\ requests' = requests + One(Sends(o, e))
        /\ opened' = opened + One(~o.tx /\ o'.tx)
        /\ token' = token /\ reply' = reply /\ grants' = grants
    BY <1>2 DEF ServeEvent, Sends
  <2>2. /\ SessionInv(o')
        /\ Sends(o, e) => Asks(o, o')
        /\ ~Sends(o, e) => Moved(o, o')
    BY <2>1, ServeMoves
  <2>3. GrantInv'
    <3>1. CASE Sends(o, e)
      BY <2>1, <2>2, <3>1 DEF GrantInv, One, Asks
    <3>2. CASE ~Sends(o, e)
      BY <2>1, <2>2, <3>2 DEF GrantInv, One, Moved, Unmoved, Opens, Ends
    <3> QED
      BY <3>1, <3>2
  <2> QED
    BY <2>2, <2>3
<1>3. ASSUME NEW a \in BOOLEAN, Answer(a)
      PROVE  IInv' /\ Moved(o, o')
  <2>1. /\ o' = [o EXCEPT !.authorized = a]
        /\ requests > 0 /\ requests' = requests - 1
        /\ reply = "idle" /\ reply' = "written"
        /\ token' = token /\ grants' = grants /\ opened' = opened
    BY <1>3 DEF Answer, history
  <2>2. SessionInv(o') /\ Unmoved(o, o')
    BY <2>1, OtherStatics
  <2>3. GrantInv'
    BY <2>1, <2>2 DEF GrantInv, One, Unmoved
  <2> QED
    BY <2>2, <2>3 DEF Moved
<1>4. CASE PostAnswer
  <2>1. /\ reply = "written" /\ reply' = "posted" /\ token' = TRUE
        /\ o' = o /\ requests' = requests /\ grants' = grants /\ opened' = opened
    BY <1>4 DEF PostAnswer, ocpp, history
  <2> QED
    BY <2>1 DEF GrantInv, One, Moved, Unmoved
<1>5. CASE AnnounceAnswer
  <2>1. /\ reply = "posted" /\ reply' = "idle" /\ token' = token
        /\ o' = o /\ requests' = requests /\ grants' = grants /\ opened' = opened
    BY <1>5 DEF AnnounceAnswer, history
  <2> QED
    BY <2>1 DEF GrantInv, One, Moved, Unmoved
<1>6. CASE \/ TakeEvents \/ OcppInit \/ Connect \/ GiveUp \/ Lose \/ Closed
           \/ BootNotification_Cb
  <2>1. SessionInv(o') /\ Unmoved(o, o')
    <3>1. \/ o' = o \/ o' = ServeReconnect(o) \/ o' = [o EXCEPT !.up = TRUE]
          \/ \E b \in BOOLEAN : o' = ConnectionStateChanged(o, b)
      BY <1>6 DEF TakeEvents, OcppInit, Connect, GiveUp, Lose, Closed, BootNotification_Cb
    <3> QED
      BY <3>1, OtherStatics DEF Unmoved
  <2>2. /\ token' = token /\ requests' = requests /\ reply' = reply
        /\ grants' = grants /\ opened' = opened
    BY <1>6 DEF TakeEvents, OcppInit, Connect, GiveUp, Lose, Closed, BootNotification_Cb, history
  <2> QED
    BY <2>1, <2>2 DEF GrantInv, One, Moved, Unmoved
<1>7. CASE \/ \E s \in PilotStates : MovePilot(s)
           \/ RemoteStart \/ RemoteStop \/ ReconnectTimer \/ NetworkDown
           \/ BootAnswered \/ UNCHANGED vars
  <2>1. /\ o' = o /\ token' = token /\ requests' = requests /\ reply' = reply
        /\ grants' = grants /\ opened' = opened
    BY <1>7 DEF MovePilot, RemoteStart, RemoteStop, ReconnectTimer, NetworkDown, BootAnswered,
                vars, ocpp, csms, history
  <2> QED
    BY <2>1 DEF GrantInv, One, Moved, Unmoved
<1> QED
  BY <1>1, <1>2, <1>3, <1>4, <1>5, <1>6, <1>7 DEF Next
-----------------------------------------------------------------------------
(* The theorems.                                                           *)

\* The inductive invariant holds in every reachable state of the station, whatever
\* the bounds and whatever the start points.
THEOREM StationInvariant == Spec => []IInv
<1>1. Init => IInv
  <2>1. NoHandler \in HandlerType
    BY DEF NoHandler, HandlerType
  <2>2. InitOcpp \in OcppType
    BY <2>1, MaxReconnectsAssumption DEF InitOcpp, OcppType
  <2>3. SessionInv(InitOcpp)
    BY <2>2 DEF SessionInv, InitOcpp, NoHandler
  <2>4. Init => GrantInv
    <3>1. /\ One(FALSE) = 0 /\ One("idle" = "written") = 0
          /\ One(InitOcpp.tx /\ ~InitOcpp.idSent) = 0
      BY DEF One, InitOcpp
    <3> SUFFICES ASSUME Init PROVE GrantInv
      OBVIOUS
    <3>2. /\ o = InitOcpp /\ token = FALSE /\ reply = "idle"
          /\ grants = 0 /\ requests = 0 /\ opened = 0
      BY DEF Init
    <3>3. One(token) = 0 /\ One(reply = "written") = 0 /\ One(o.tx /\ ~o.idSent) = 0
      BY <3>1, <3>2, Zenon
    <3>4. grants + requests + One(token) + One(reply = "written") + One(o.tx /\ ~o.idSent)
            <= opened
      BY <3>2, <3>3
    <3> QED
      BY <3>2, <3>4 DEF GrantInv
  <2> QED
    BY <2>3, <2>4 DEF Init, IInv
<1>2. IInv /\ [Next]_vars => IInv'
  BY NextKeeps
<1> QED
  BY <1>1, <1>2, PTL DEF Spec

\* Statics, handler and libocpp describe the same session at every point where
\* another task may look, and no transaction outlives its handler.
THEOREM OrphansNever == Spec => []NoOrphanTransaction
<1>1. IInv => NoOrphanTransaction
  BY DEF IInv, SessionInv, NoOrphanTransaction
<1> QED
  BY <1>1, StationInvariant, PTL

\* The stack never consumes more grants than transactions were opened.
THEOREM GrantsAreCounted == Spec => []OneGrantPerTransaction
<1>1. IInv => OneGrantPerTransaction
  BY DEF IInv, GrantInv, OneGrantPerTransaction, One
<1> QED
  BY <1>1, StationInvariant, PTL

\* The transactions of libocpp, as the station drives them, implement the ledger.
THEOREM StationFollowsLedger == Spec => LedgerSpec
<1>1. Init => Ledger!Init
  BY DEF Init, InitOcpp, Ledger!Init
<1>2. IInv /\ [Next]_vars => [Ledger!Next]_<<o.tx, o.idSent>>
  <2> SUFFICES ASSUME IInv, [Next]_vars
               PROVE  [Ledger!Next]_<<o.tx, o.idSent>>
    OBVIOUS
  <2>1. IInv' /\ (Moved(o, o') \/ Asks(o, o'))
    BY NextKeeps
  <2>2. /\ o.tx \in BOOLEAN /\ o.idSent \in BOOLEAN
        /\ o'.tx \in BOOLEAN /\ o'.idSent \in BOOLEAN
    BY <2>1 DEF IInv, SessionInv, OcppType
  <2> QED
    BY <2>1, <2>2 DEF Moved, Unmoved, Opens, Ends, Asks, Ledger!Next, Ledger!Started,
                      Ledger!IdToken, Ledger!Ended
<1> QED
  BY <1>1, <1>2, StationInvariant, PTL DEF Spec, LedgerSpec, Ledger!Spec
-----------------------------------------------------------------------------
(* Types.                                                                  *)

\* The events a pass raises are events of the OCPP task, and so is what it takes.
LEMMA EventTypes ==
  /\ J1772Events \subseteq OcppEvents /\ SessionEvents \subseteq OcppEvents
  /\ OcppEvents \ {"Reconnect"} \subseteq SessionEvents
  /\ {"Reconnect", "EvAuthorized", "StartRemote", "StopRemote", "NetworkDown"}
       \subseteq OcppEvents
BY Served DEF J1772Events, OcppEvents

\* A pass gets well-typed inputs from the line, the OCPP task and the meter.
LEMMA PassInputs ==
  ASSUME TypeOK, NEW load \in Loads, NEW timedOut \in BOOLEAN
  PROVE  LET answer == IF PollsAuth(j, line) THEN GetAuthResponse(o, token, timedOut)
                       ELSE "None"
         IN  [cp |-> line, answer |-> answer, load |-> load, due |-> TRUE,
              expired |-> TRUE] \in Inputs
<1>1. GetAuthResponse(o, token, timedOut) \in Answers
  BY DEF TypeOK, OcppType, GetAuthResponse, Answers
<1> QED
  BY <1>1 DEF TypeOK, Inputs, Answers

\* What remains of TypeOK once IInv is known.
Rest ==
  /\ j \in J1772Type /\ line \in CpStates
  /\ bits \subseteq OcppEvents /\ todo \subseteq SessionEvents
  /\ reply \in {"idle", "written", "posted"} /\ net \in NetStates
  /\ boot \in {"awaited", "received", "handled"}
  /\ late \in BOOLEAN /\ lapsed \in BOOLEAN
  /\ session \in [plugged : BOOLEAN, granted : BOOLEAN]

LEMMA RestIsTypeOK == IInv => (Rest <=> TypeOK)
BY DEF IInv, SessionInv, GrantInv, Rest, TypeOK

LEMMA NextTypes ==
  ASSUME IInv, TypeOK, [Next]_vars
  PROVE  TypeOK'
<1> USE EventTypes
<1>1. Rest /\ IInv'
  BY NextKeeps, RestIsTypeOK
<1>2. CASE Pass
  <2>1. PICK load \in Loads, timedOut \in BOOLEAN :
          j' = LoopEvse(j, [cp |-> line,
                            answer |-> IF PollsAuth(j, line)
                                         THEN GetAuthResponse(o, token, timedOut) ELSE "None",
                            load |-> load, due |-> TRUE, expired |-> TRUE])
    BY <1>2 DEF Pass
  <2>2. j' \in J1772Type
    BY <2>1, PassInputs, LoopType, <1>1 DEF Rest
  <2>3. j'.raised \subseteq J1772Events
    BY <2>2 DEF J1772Type
  <2>4. bits' \subseteq OcppEvents
    BY <1>1, <1>2, <2>3 DEF Pass, SetEvents, Rest
  <2>5. /\ late' \in BOOLEAN /\ session' \in [plugged : BOOLEAN, granted : BOOLEAN]
        /\ UNCHANGED <<line, todo, reply, net, boot, lapsed>>
    BY <1>2 DEF Pass, csms
  <2>6. Rest'
    BY <1>1, <2>2, <2>4, <2>5 DEF Rest
  <2> QED
    BY <1>1, <2>6 DEF IInv, SessionInv, GrantInv, Rest, TypeOK
<1>3. ASSUME NEW e \in SessionEvents, ServeEvent(e)
      PROVE  Rest'
  <2>1. j' \in J1772Type
    BY <1>1, <1>3, StopType DEF ServeEvent, Rest
  <2>2. net' \in NetStates
    BY <1>1, <1>3 DEF ServeEvent, Rest, Disconnect, NetStates
  <2>3. lapsed' \in BOOLEAN
    BY <1>3 DEF ServeEvent
  <2> QED
    BY <1>1, <1>3, <2>1, <2>2, <2>3 DEF ServeEvent, Rest
<1>4. CASE TakeEvents
  <2>1. net' \in NetStates
    BY <1>1, <1>4 DEF TakeEvents, Rest, NetStates
  <2>2. bits' \subseteq OcppEvents /\ todo' \subseteq SessionEvents
    BY <1>1, <1>4 DEF TakeEvents, Rest
  <2>3. UNCHANGED <<j, line, reply, boot, session, late, lapsed>>
    BY <1>4 DEF TakeEvents, charging, history
  <2>4. Rest'
    BY <1>1, <2>1, <2>2, <2>3 DEF Rest
  <2> QED
    BY <1>1, <2>4 DEF IInv, SessionInv, GrantInv, Rest, TypeOK
<1>5. CASE \/ \E s \in PilotStates : MovePilot(s)
           \/ OcppInit \/ Connect \/ GiveUp \/ Lose \/ Closed
           \/ \E a \in BOOLEAN : Answer(a)
           \/ PostAnswer \/ BootAnswered \/ BootNotification_Cb
  <2>1. /\ line' \in CpStates /\ net' \in NetStates /\ reply' \in {"idle", "written", "posted"}
        /\ boot' \in {"awaited", "received", "handled"}
    BY <1>1, <1>5, EvseAssumption DEF Rest, NetStates, MovePilot, OcppInit, Connect, GiveUp,
       Lose, Closed, Answer, PostAnswer, BootAnswered, BootNotification_Cb, charging, csms
  <2>2. UNCHANGED <<j, bits, todo, session, late, lapsed>>
    BY <1>5 DEF MovePilot, OcppInit, Connect, GiveUp,
       Lose, Closed, Answer, PostAnswer, BootAnswered, BootNotification_Cb, charging, ocpp, history
  <2>3. Rest'
    BY <1>1, <2>1, <2>2 DEF Rest
  <2> QED
    BY <1>1, <2>3 DEF IInv, SessionInv, GrantInv, Rest, TypeOK
<1>6. CASE AnnounceAnswer \/ RemoteStart \/ RemoteStop \/ ReconnectTimer \/ NetworkDown
  <2>1. bits' \subseteq OcppEvents
    BY <1>1, <1>6 DEF Rest, SetEvents, AnnounceAnswer, RemoteStart, RemoteStop,
       ReconnectTimer, NetworkDown
  <2>2. /\ net' \in NetStates /\ reply' \in {"idle", "written", "posted"}
        /\ UNCHANGED <<j, line, todo, boot, session, late, lapsed>>
    BY <1>1, <1>6 DEF Rest, NetStates, AnnounceAnswer, RemoteStart, RemoteStop,
       ReconnectTimer, NetworkDown, charging, csms, history
  <2>3. Rest'
    BY <1>1, <2>1, <2>2 DEF Rest
  <2> QED
    BY <1>1, <2>3 DEF IInv, SessionInv, GrantInv, Rest, TypeOK
<1>7. CASE UNCHANGED vars
  BY <1>7 DEF vars, charging, ocpp, csms, history, TypeOK
<1>8. Rest' => TypeOK'
  BY <1>1 DEF IInv, SessionInv, GrantInv, Rest, TypeOK
<1> QED
  BY <1>2, <1>3, <1>4, <1>5, <1>6, <1>7, <1>8 DEF Next

\* The variables of the station stay in their types, whatever the bounds: every answer,
\* event and pilot state that one task hands to another is one the other knows.
THEOREM StationTypes == Spec => []TypeOK
<1>1. Init => TypeOK
  <2> SUFFICES ASSUME Init PROVE TypeOK
    OBVIOUS
  <2>1. NoHandler \in HandlerType
    BY DEF NoHandler, HandlerType
  <2>2. InitOcpp \in OcppType
    BY <2>1, MaxReconnectsAssumption DEF InitOcpp, OcppType
  <2> QED
    BY <2>2, InitStructType DEF Init, TypeOK, CpStates, NetStates
<1>2. IInv /\ TypeOK /\ [Next]_vars => TypeOK'
  BY NextTypes
<1> QED
  BY <1>1, <1>2, StationInvariant, PTL DEF Spec
-----------------------------------------------------------------------------
(* Energy is paid for.  The invariant of the struct (StateInv) holds for   *)
(* the station's own record of the session, so the contactor is closed in  *)
(* a granted session only; the count of the grants says that there is a    *)
(* transaction for the grant that a pass consumes.                         *)

EnergyInv == StateInv(j, session.plugged, session.granted)

\* A pass keeps the invariant of the struct, and is a step of the paid session.
LEMMA PassPays ==
  ASSUME IInv, TypeOK, EnergyInv, Pass
  PROVE  EnergyInv' /\ [Paid!PaidNext]_Paid!PaidVars
<1>1. PICK load \in Loads, timedOut \in BOOLEAN :
        LET polls  == PollsAuth(j, line)
            answer == IF polls THEN GetAuthResponse(o, token, timedOut) ELSE "None"
        IN  /\ j' = LoopEvse(j, [cp |-> line, answer |-> answer, load |-> load,
                                 due |-> TRUE, expired |-> TRUE])
            /\ grants' = grants + One(answer = "Accept")
            /\ session' = [plugged |-> /\ "EvDisconnected" \notin j'.raised
                                       /\ session.plugged \/ "EvConnected" \in j'.raised,
                           granted |-> /\ "EvDisconnected" \notin j'.raised
                                       /\ session.granted \/ answer = "Accept"]
            /\ UNCHANGED opened
  BY DEF Pass
<1> DEFINE polls  == PollsAuth(j, line)
           answer == IF polls THEN GetAuthResponse(o, token, timedOut) ELSE "None"
           in == [cp |-> line, answer |-> answer, load |-> load, due |-> TRUE, expired |-> TRUE]
           p == session.plugged
           g == session.granted
<1>2. in \in Inputs /\ in.cp = line /\ in.answer = answer
  BY PassInputs
<1>3. /\ j' = LoopEvse(j, in) /\ opened' = opened
      /\ grants' = grants + One(answer = "Accept")
      /\ p' = ("EvDisconnected" \notin j'.raised /\ (p \/ "EvConnected" \in j'.raised))
      /\ g' = ("EvDisconnected" \notin j'.raised /\ (g \/ answer = "Accept"))
  BY <1>1
<1>4. answer = "Accept" => PollsAuth(j, line) /\ grants < opened
  <2> SUFFICES ASSUME answer = "Accept" PROVE PollsAuth(j, line) /\ grants < opened
    OBVIOUS
  <2>1. polls /\ token
    BY AcceptTakesToken DEF TypeOK
  <2> QED
    BY <2>1 DEF IInv, GrantInv, One
<1>5. p \in BOOLEAN /\ g \in BOOLEAN /\ j \in J1772Type /\ grants \in Nat /\ opened \in Nat
  BY DEF TypeOK
<1> HIDE DEF answer, in, polls
<1>6. Preserved(j, in, p, g, j')
  BY <1>2, <1>3, <1>5, LoopPreserves DEF EnergyInv
<1>7. p' = NextPlugged(j', p) /\ g' = NextGranted(j', j, in, g)
  BY <1>2, <1>3, <1>4 DEF NextPlugged, NextGranted
<1>8. StateInv(j', p', g') /\ Announced(j, in, j') /\ j' \in J1772Type
  BY <1>6, <1>7 DEF Preserved
<1>9. /\ j.contactor \in {"open", "closed"} /\ j'.contactor \in {"open", "closed"}
      /\ p' \in BOOLEAN /\ g' \in BOOLEAN
  BY <1>3, <1>5, <1>8 DEF J1772Type
<1> DEFINE on == j.contactor = "closed"
<1>10. SessionOfState(j, p, g) /\ SessionOfState(j', p', g')
       /\ (on => j.state \in {"B2", "C2", "D2"}) /\ (on' => j'.state \in {"B2", "C2", "D2"})
  BY <1>8 DEF StateInv, EnergyInv
<1>11. [Paid!PaidNext]_Paid!PaidVars
  <2> USE DEF Paid!PaidNext, Paid!PaidVars, Paid!vars, Paid!Unpaid, Paid!PaidGrant, Paid!PlugIn,
              Paid!Grant, Paid!PowerOn, Paid!PowerOff, Paid!Leave
  <2>1. CASE answer = "Accept"
    <3>1. /\ j.state = "B" /\ j.authNeeded /\ ~on /\ ~on' /\ p /\ ~g
      BY <1>4, <1>5, <1>8, <1>2, <1>9, <1>10, <2>1 DEF PollsAuth, Announced, SessionOfState
    <3>2. "EvDisconnected" \notin j'.raised
      BY <1>2, <1>4, <1>8, <2>1 DEF Announced
    <3>3. p' /\ g' /\ grants' = grants + 1 /\ grants < opened
      BY <1>3, <1>4, <2>1, <3>1, <3>2 DEF One
    <3> QED
      BY <1>3, <1>5, <1>9, <3>1, <3>3
  <2>2. CASE answer # "Accept"
    <3>1. grants' = grants
      BY <1>3, <1>5, <2>2 DEF One
    <3>2. CASE "EvDisconnected" \in j'.raised
      <4>1. ~p' /\ ~g' /\ ~on /\ ~on'
        BY <1>3, <1>8, <3>2 DEF Announced
      <4> QED
        BY <1>3, <1>9, <3>1, <4>1
    <3>3. CASE "EvDisconnected" \notin j'.raised /\ "EvConnected" \in j'.raised
      <4>1. j.state = "A" /\ ~p /\ ~g /\ ~on /\ p' /\ ~g'
        BY <1>3, <1>8, <1>10, <2>2, <3>3 DEF Announced, SessionOfState
      <4>2. ~on'
        BY <1>10, <4>1 DEF SessionOfState
      <4> QED
        BY <1>3, <1>9, <3>1, <4>1, <4>2
    <3>4. CASE "EvDisconnected" \notin j'.raised /\ "EvConnected" \notin j'.raised
      <4>1. p' = p /\ g' = g
        BY <1>3, <1>5, <2>2, <3>4
      <4>2. on' => p /\ g
        BY <1>10, <4>1 DEF SessionOfState
      <4> QED
        BY <1>3, <1>5, <1>9, <3>1, <4>1, <4>2
    <3> QED
      BY <3>2, <3>3, <3>4
  <2> QED
    BY <2>1, <2>2
<1> QED
  BY <1>8, <1>11 DEF EnergyInv

\* Every other step leaves the contactor and the session alone; a block that opens a
\* transaction adds to what later grants may use.
LEMMA NextPays ==
  ASSUME IInv, TypeOK, EnergyInv, [Next]_vars
  PROVE  EnergyInv' /\ [Paid!PaidNext]_Paid!PaidVars
<1>1. ASSUME NEW e \in SessionEvents, ServeEvent(e)
      PROVE  EnergyInv' /\ [Paid!PaidNext]_Paid!PaidVars
  <2>1. /\ UNCHANGED <<session, grants>>
        /\ j' = j \/ j' = StopCharging(j, TRUE)
        /\ opened' = opened + One(~o.tx /\ o'.tx)
    BY <1>1 DEF ServeEvent
  <2>2. /\ session.plugged \in BOOLEAN /\ session.granted \in BOOLEAN
        /\ j \in J1772Type /\ opened \in Nat
    BY DEF TypeOK
  <2>3. EnergyInv' /\ j'.contactor = j.contactor
    BY <2>1, <2>2, StopInv DEF EnergyInv
  <2>4. opened' = opened \/ opened' = opened + 1
    BY <2>1, <2>2 DEF One
  <2> QED
    BY <2>1, <2>3, <2>4 DEF Paid!PaidNext, Paid!PaidVars, Paid!vars, Paid!Open
<1>2. CASE \/ TakeEvents \/ OcppInit \/ Connect \/ GiveUp \/ Lose \/ Closed
           \/ (\E s \in PilotStates : MovePilot(s)) \/ (\E a \in BOOLEAN : Answer(a))
           \/ PostAnswer \/ AnnounceAnswer \/ RemoteStart \/ RemoteStop
           \/ ReconnectTimer \/ NetworkDown \/ BootAnswered \/ BootNotification_Cb
           \/ UNCHANGED vars
  <2>1. UNCHANGED <<j, session, opened, grants>>
    BY <1>2 DEF TakeEvents, OcppInit, Connect, GiveUp, Lose, Closed, MovePilot, Answer,
       PostAnswer, AnnounceAnswer, RemoteStart, RemoteStop, ReconnectTimer, NetworkDown,
       BootAnswered, BootNotification_Cb, vars, charging, history
  <2> QED
    BY <2>1 DEF EnergyInv, Paid!PaidVars, Paid!vars
<1> QED
  BY <1>1, <1>2, PassPays DEF Next

\* The station implements PaidSession: across the charging task, the OCPP task, libocpp
\* and the answers of the CSMS, energy flows only in a session in which the stack has
\* consumed an "Accept", one session consumes one, and each "Accept" consumed is matched
\* by a transaction of the station, though not always one of the same EV.
THEOREM StationPays == Spec => EnergyIsPaid
<1>1. Init => EnergyInv /\ Paid!PaidInit
  <2> SUFFICES ASSUME Init PROVE EnergyInv /\ Paid!PaidInit
    OBVIOUS
  <2>1. StateInv(InitStruct, FALSE, FALSE)
    BY DEF InitStruct, StateInv, SessionOfState
  <2> QED
    BY <2>1 DEF Init, EnergyInv, Paid!PaidInit, Paid!Init, InitStruct
<1>2. IInv /\ TypeOK /\ EnergyInv /\ [Next]_vars
        => EnergyInv' /\ [Paid!PaidNext]_Paid!PaidVars
  BY NextPays
<1> QED
  BY <1>1, <1>2, StationInvariant, StationTypes, PTL DEF Spec, EnergyIsPaid, Paid!PaidSpec
-----------------------------------------------------------------------------
(* The transaction data that process_charging_ended reads.  A living       *)
(* handler knows of its EV, so under the stop points of the station its    *)
(* transaction ends before the EV leaves only where the handler does not   *)
(* hold an acceptance; and the data of a living handler goes only with its *)
(* transaction.                                                            *)

StopsWithSession == TxStopPoints \subseteq {"EVConnected", "Authorized", "PowerPathClosed"}

Attached(r) == r.handler.alive => "ev_connected" \in r.handler.conditions
Gone(r)     == r.handler.alive /\ r.handler.data = "null"

\* From r to q the handler stays attached, and its data goes only with a transaction
\* that was not authorized.
Lapses(r, q)   == r.tx /\ ~q.tx /\ "authorized" \notin r.handler.conditions
KeepsData(r, q) == Attached(q) /\ (Gone(q) => Gone(r) \/ Lapses(r, q))

LEMMA EffectKeepsData ==
  ASSUME StopsWithSession, NEW r, HandlerInv(r), Attached(r)
  PROVE  KeepsData(r, process_tx_event_effect(r))
<1> DEFINE q == process_tx_event_effect(r)
<1>1. HandlerInv(q) /\ SameEv(r, q)
  BY EffectHandled
<1>2. q.handler.conditions = r.handler.conditions
  BY DEF process_tx_event_effect, on_transaction_started, on_transaction_finished,
         reset_transaction_data, HandlerInv, OcppType, HandlerType
<1>3. Attached(q)
  BY <1>1, <1>2 DEF Attached, SameEv
<1>4. CASE Effect(r.handler) = "START_TRANSACTION"
  <2>1. q.tx
    BY <1>4 DEF process_tx_event_effect, on_transaction_started, HandlerInv, OcppType
  <2> QED
    BY <1>1, <1>3, <2>1 DEF KeepsData, Gone, HandlerInv
<1>5. CASE Effect(r.handler) = "STOP_TRANSACTION"
  <2>1. should_transaction_stop(r.handler)
    BY <1>5 DEF Effect
  <2>2. r.tx /\ "ev_connected" \in r.handler.conditions
    BY <2>1 DEF should_transaction_stop, HandlerInv, Attached
  <2>3. PICK p \in TxStopPoints : is_stop_condition_fullfilled(r.handler.conditions, p)
    BY <2>1 DEF should_transaction_stop
  <2>4. Needs(p) \subseteq {"authorized", "ev_connected"}
    BY DEF StopsWithSession, Needs
  <2>5. "immediate_reset" \notin r.handler.conditions
    BY DEF HandlerInv, Observed
  <2>6. ~(Needs(p) \subseteq r.handler.conditions)
    BY <2>3, <2>5 DEF is_stop_condition_fullfilled
  <2>7. "authorized" \notin r.handler.conditions
    BY <2>2, <2>4, <2>6
  <2>8. Gone(q) => ~q.tx
    BY <1>1 DEF Gone, HandlerInv
  <2> QED
    BY <1>3, <2>2, <2>7, <2>8 DEF KeepsData, Lapses
<1>6. CASE Effect(r.handler) \notin {"START_TRANSACTION", "STOP_TRANSACTION"}
  BY <1>3, <1>6 DEF process_tx_event_effect, KeepsData
<1> QED
  BY <1>4, <1>5, <1>6

LEMMA ProcessKeepsData ==
  ASSUME StopsWithSession, NEW r, HandlerInv(r),
         NEW e \in {"EV_CONNECTED", "ENERGY_TRANSFER_STARTED", "ENERGY_TRANSFER_STOPPED"},
         Attached(r) \/ e = "EV_CONNECTED"
  PROVE  KeepsData(r, process_tx_event_effect(Submit(r, e)))
<1> DEFINE s == Submit(r, e)
           q == process_tx_event_effect(s)
<1>1. HandlerInv(s) /\ Unmoved(r, s) /\ SameEv(r, s)
  BY SubmitHandled
<1>2. s.handler.data = r.handler.data /\ s.handler.conditions = Submitted(r.handler.conditions, e)
  BY DEF Submit, submit_event, HandlerInv, OcppType, HandlerType
<1> HIDE DEF s
<1>3. /\ Attached(s)
      /\ "authorized" \in s.handler.conditions <=> "authorized" \in r.handler.conditions
  BY <1>1, <1>2 DEF Attached, SameEv, Submitted
<1>4. KeepsData(s, q)
  BY <1>1, <1>3, EffectKeepsData
<1> HIDE DEF q
<1>5. KeepsData(r, q)
  BY <1>1, <1>2, <1>3, <1>4 DEF KeepsData, Gone, Lapses, Unmoved, SameEv
<1> QED
  BY <1>5 DEF s, q

\* Every block of the loop keeps the data of a session that is authorized.
LEMMA ServeKeepsData ==
  ASSUME StopsWithSession, NEW r, SessionInv(r), Attached(r), NEW e \in SessionEvents
  PROVE  KeepsData(r, Serve(r, e))
<1>1. HandlerInv(r) /\ r \in OcppType /\ KeepsData(r, r)
  BY SessionIsHandler DEF SessionInv, KeepsData
<1>2. CASE e = "EvConnected"
  <2>1. CASE r.handler.alive
    BY <1>1, <1>2, <2>1 DEF Serve, ServeConnected
  <2>2. CASE ~r.handler.alive
    <3> DEFINE h == add_transaction_data(NewHandler)
               s == [r EXCEPT !.handler = h]
               q == process_tx_event_effect(Submit(s, "EV_CONNECTED"))
    <3>1. /\ h \in HandlerType /\ h.alive /\ h.data = "new" /\ h.conditions = {}
      BY DEF add_transaction_data, NewHandler, HandlerType
    <3>2. ~r.tx /\ ~r.idSent
      BY <2>2 DEF SessionInv, OcppType, HandlerType
    <3>3. Serve(r, e) = [q EXCEPT !.plugged = TRUE]
      BY <1>2, <2>2 DEF Serve, ServeConnected
    <3> HIDE DEF h
    <3>4. HandlerInv(s) /\ s.handler.data = "new" /\ ~s.tx
      BY <1>1, <3>1, <3>2 DEF HandlerInv, OcppType
    <3> HIDE DEF s
    <3>5. KeepsData(s, q) /\ HandlerInv(q)
      BY <3>4, ProcessKeepsData, ProcessHandled
    <3> HIDE DEF q
    <3>6. KeepsData(r, q) /\ q \in OcppType
      BY <3>4, <3>5 DEF KeepsData, Gone, Lapses, HandlerInv
    <3> QED
      BY <3>3, <3>6 DEF KeepsData, Attached, Gone, Lapses, OcppType
  <2> QED
    BY <2>1, <2>2
<1>3. CASE e = "AuthNeeded"
  BY <1>1, <1>3 DEF Serve, ServeAuthNeeded, on_authorized, KeepsData, Attached, Gone, OcppType
<1>4. CASE e = "EvAuthorized"
  BY <1>1, <1>4 DEF Serve, ServeAuthorized, Submit, submit_event, Submitted, KeepsData, Attached,
                    Gone, OcppType, HandlerType
<1>5. CASE e \in {"ChargingStarted", "StartRemote"}
  <2> DEFINE q == process_charging_started(r)
  <2>1. KeepsData(r, q) /\ q \in OcppType
    BY <1>1, ProcessKeepsData, ProcessHandled DEF process_charging_started, HandlerInv
  <2> HIDE DEF q
  <2>2. KeepsData(r, [q EXCEPT !.started = TRUE])
    BY <2>1 DEF KeepsData, Attached, Gone, Lapses, OcppType
  <2>3. Serve(r, e) \in {r, q, [q EXCEPT !.started = TRUE]}
    BY <1>5 DEF Serve, ServeStarted, ServeStartRemote, q
  <2> QED
    BY <1>1, <2>1, <2>2, <2>3
<1>6. CASE e \in {"ChargingStopped", "StopRemote"}
  <2> DEFINE q == process_charging_ended(r)
  <2>1. KeepsData(r, q) /\ q \in OcppType
    BY <1>1, ProcessKeepsData, ProcessHandled DEF process_charging_ended, HandlerInv
  <2> HIDE DEF q
  <2>2. KeepsData(r, [q EXCEPT !.started = FALSE])
    BY <2>1 DEF KeepsData, Attached, Gone, Lapses, OcppType
  <2>3. Serve(r, e) \in {r, q, [q EXCEPT !.started = FALSE]}
    BY <1>6 DEF Serve, ServeStopped, ServeStopRemote, q
  <2> QED
    BY <1>1, <2>1, <2>2, <2>3
<1>7. CASE e = "EvDisconnected"
  <2>1. CASE r.handler.alive
    <3> DEFINE p == process_tx_event_effect(Submit(Submit(r, "DEAUTHORIZED"), "EV_DISCONNECTED"))
    <3>1. Serve(r, e) = reset_session_state([p EXCEPT !.handler = NoHandler])
      BY <1>7, <2>1 DEF Serve, ServeDisconnected, SessionInv
    <3>2. p \in OcppType
      BY <1>1, SubmitHandled, EffectHandled DEF HandlerInv
    <3> HIDE DEF p
    <3> QED
      BY <3>1, <3>2 DEF reset_session_state, NoHandler, KeepsData, Attached, Gone, OcppType
  <2>2. CASE ~r.handler.alive
    BY <1>1, <1>7, <2>2
       DEF Serve, ServeDisconnected, reset_session_state, KeepsData, Attached, Gone, OcppType
  <2> QED
    BY <2>1, <2>2
<1>8. CASE e = "NetworkDown"
  BY <1>1, <1>8 DEF Serve, ServeNetworkDown, KeepsData, Attached, Gone, OcppType
<1> QED
  BY <1>2, <1>3, <1>4, <1>5, <1>6, <1>7, <1>8, Served

\* The inductive invariant of the data, together with IInv.
DataInv == Attached(o) /\ (Gone(o) => lapsed)

LEMMA NextKeepsData ==
  ASSUME StopsWithSession, IInv, DataInv, [Next]_vars
  PROVE  DataInv'
<1>1. SessionInv(o) /\ o \in OcppType
  BY DEF IInv, SessionInv
<1>2. ASSUME NEW e \in SessionEvents, ServeEvent(e)
      PROVE  DataInv'
  <2>1. /\ o' = Serve(o, e)
        /\ lapsed' = /\ o'.handler.alive
                     /\ lapsed \/ (o.tx /\ ~o'.tx /\ "authorized" \notin o.handler.conditions)
    BY <1>2 DEF ServeEvent
  <2>2. KeepsData(o, o')
    BY <1>1, <2>1, ServeKeepsData DEF DataInv
  <2>3. Gone(o') => o'.handler.alive /\ (lapsed \/ Lapses(o, o'))
    BY <2>2 DEF KeepsData, Gone, DataInv
  <2> QED
    BY <2>1, <2>2, <2>3 DEF DataInv, KeepsData, Lapses, Attached, Gone
<1>3. CASE ~(\E e \in SessionEvents : ServeEvent(e))
  <2>1. lapsed' = lapsed
    BY <1>3 DEF Next, Pass, MovePilot, OcppInit, TakeEvents, BootAnswered, BootNotification_Cb,
       Answer, PostAnswer, AnnounceAnswer, RemoteStart, RemoteStop, Connect, GiveUp, Lose, Closed,
       ReconnectTimer, NetworkDown, vars, history
  <2>2. o'.handler = o.handler
    <3>1. \/ o' = o \/ o' = ServeReconnect(o) \/ o' = [o EXCEPT !.up = TRUE]
          \/ \E b \in BOOLEAN : o' = ConnectionStateChanged(o, b)
          \/ \E b \in BOOLEAN : o' = [o EXCEPT !.authorized = b]
          \/ \E b \in BOOLEAN : o' = [o EXCEPT !.asked = @ /\ b]
      BY <1>3 DEF Next, Pass, MovePilot, OcppInit, TakeEvents, BootAnswered, BootNotification_Cb,
         Answer, PostAnswer, AnnounceAnswer, RemoteStart, RemoteStop, Connect, GiveUp, Lose, Closed,
         ReconnectTimer, NetworkDown, vars, ocpp
    <3> QED
      BY <1>1, <3>1 DEF ServeReconnect, ConnectionStateChanged, OcppType
  <2> QED
    BY <2>1, <2>2 DEF DataInv, Attached, Gone
<1> QED
  BY <1>2, <1>3

\* A stop finds the transaction data unless the transaction of the session was ended
\* while the handler held no acceptance: for every choice of start points, for the stop
\* points that rest on the EV and its acceptance (as the station's one does), and however
\* the tasks run.
THEOREM StopsFindData ==
  ASSUME TxStopPoints \subseteq {"EVConnected", "Authorized", "PowerPathClosed"}
  PROVE  Spec => []StopFindsData
<1>1. StopsWithSession
  BY DEF StopsWithSession
<1>2. Init => DataInv
  BY DEF Init, InitOcpp, NoHandler, DataInv, Attached, Gone
<1>3. IInv /\ DataInv /\ [Next]_vars => DataInv'
  BY <1>1, NextKeepsData
<1>4. DataInv => StopFindsData
  BY DEF DataInv, StopFindsData, EndsTransfer, Gone
<1> QED
  BY <1>2, <1>3, <1>4, StationInvariant, PTL DEF Spec
=============================================================================
