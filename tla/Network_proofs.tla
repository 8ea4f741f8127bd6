--------------------------- MODULE Network_proofs ---------------------------
(***************************************************************************)
(* Proofs about the way from the WiFi link to the CSMS, for every limit of *)
(* attempts, pings and reconnections and every bound.                      *)
(*                                                                         *)
(* OneWayBack counts the ways back; here the ways are told apart, and for  *)
(* each one it is shown what makes it the only one.                        *)
(***************************************************************************)
EXTENDS Network, Connectivity_proofs, SequenceTheorems

-----------------------------------------------------------------------------
(* The queue of deferred callbacks.                                        *)

HasStop(s) == \E i \in DOMAIN s : s[i] = "stopped"
OneStop(s) == \A i, j \in DOMAIN s : s[i] = "stopped" /\ s[j] = "stopped" => i = j
EndOf(s)   == s[Len(s)]

\* A callback other than the stop goes to the end of the queue.
LEMMA PushOne ==
  ASSUME NEW s \in Seq(Callbacks), NEW c \in Callbacks \ {"stopped"}
  PROVE  /\ s \o <<c>> \in Seq(Callbacks) /\ s \o <<c>> # << >>
         /\ EndOf(s \o <<c>>) = c
         /\ HasStop(s \o <<c>>) <=> HasStop(s)
         /\ OneStop(s) => OneStop(s \o <<c>>)
<1> DEFINE t == s \o <<c>>
<1>1. /\ t \in Seq(Callbacks) /\ Len(t) = Len(s) + 1 /\ DOMAIN t = 1 .. Len(s) + 1
      /\ t[Len(s) + 1] = c /\ \A i \in 1 .. Len(s) : t[i] = s[i]
      /\ Len(s) \in Nat /\ DOMAIN s = 1 .. Len(s)
  OBVIOUS
<1> HIDE DEF t
<1> QED
  BY <1>1 DEF HasStop, OneStop, EndOf, t

\* The pair that gives back control goes there as well.
LEMMA PushTwo ==
  ASSUME NEW s \in Seq(Callbacks)
  PROVE  LET t == s \o <<"stopped", "disconnected">>
         IN  /\ t \in Seq(Callbacks) /\ t # << >>
             /\ EndOf(t) = "disconnected"
             /\ HasStop(t)
             /\ ~HasStop(s) => OneStop(t)
<1> DEFINE t == s \o <<"stopped", "disconnected">>
<1>1. /\ t \in Seq(Callbacks) /\ Len(t) = Len(s) + 2 /\ DOMAIN t = 1 .. Len(s) + 2
      /\ t[Len(s) + 1] = "stopped" /\ t[Len(s) + 2] = "disconnected"
      /\ \A i \in 1 .. Len(s) : t[i] = s[i]
      /\ Len(s) \in Nat /\ DOMAIN s = 1 .. Len(s)
  BY DEF Callbacks
<1> HIDE DEF t
<1>2. HasStop(t)
  BY <1>1 DEF HasStop
<1>3. ~HasStop(s) => OneStop(t)
  BY <1>1 DEF HasStop, OneStop
<1> QED
  BY <1>1, <1>2, <1>3 DEF EndOf, t

\* The thread takes the callback at the front.
LEMMA PopOne ==
  ASSUME NEW s \in Seq(Callbacks), s # << >>
  PROVE  /\ Tail(s) \in Seq(Callbacks) /\ Head(s) \in Callbacks
         /\ Head(s) # "stopped" => (HasStop(Tail(s)) <=> HasStop(s))
         /\ OneStop(s) /\ Head(s) = "stopped" => ~HasStop(Tail(s))
         /\ Head(s) = "stopped" => HasStop(s)
         /\ OneStop(s) => OneStop(Tail(s))
         /\ Tail(s) # << >> => EndOf(Tail(s)) = EndOf(s)
         /\ Tail(s) = << >> => EndOf(s) = Head(s)
<1> DEFINE t == Tail(s)
<1>1. /\ t \in Seq(Callbacks) /\ Len(t) = Len(s) - 1 /\ DOMAIN t = 1 .. Len(s) - 1
      /\ \A i \in 1 .. Len(s) - 1 : t[i] = s[i + 1]
      /\ Head(s) = s[1] /\ s[1] \in Callbacks
      /\ Len(s) \in Nat \ {0} /\ DOMAIN s = 1 .. Len(s)
      /\ t = << >> <=> Len(s) = 1
  <2>1. Len(s) \in Nat \ {0} /\ DOMAIN s = 1 .. Len(s)
    OBVIOUS
  <2>2. t \in Seq(Callbacks) /\ Len(t) = Len(s) - 1 /\ DOMAIN t = 1 .. Len(s) - 1
    BY <2>1
  <2>3. \A i \in 1 .. Len(s) - 1 : t[i] = s[i + 1]
    BY <2>1
  <2>4. Head(s) = s[1] /\ s[1] \in Callbacks
    BY <2>1
  <2>5. t = << >> <=> Len(s) = 1
    <3>1. \A q \in Seq(Callbacks) : q = << >> <=> Len(q) = 0
      BY EmptySeq, Zenon
    <3> HIDE DEF t
    <3> QED
      BY <2>1, <2>2, <3>1
  <2> QED
    BY <2>1, <2>2, <2>3, <2>4, <2>5
<1> HIDE DEF t
<1>2. Head(s) # "stopped" => (HasStop(t) <=> HasStop(s))
  <2>1. HasStop(t) => HasStop(s)
    BY <1>1 DEF HasStop
  <2>2. ASSUME Head(s) # "stopped", HasStop(s) PROVE HasStop(t)
    <3>1. PICK i \in 1 .. Len(s) : s[i] = "stopped"
      BY <1>1, <2>2 DEF HasStop
    <3>2. i - 1 \in DOMAIN t /\ t[i - 1] = "stopped"
      BY <1>1, <2>2, <3>1
    <3> QED
      BY <3>2 DEF HasStop
  <2> QED
    BY <2>1, <2>2
<1>3. OneStop(s) /\ Head(s) = "stopped" => ~HasStop(t)
  BY <1>1 DEF HasStop, OneStop
<1>4. Head(s) = "stopped" => HasStop(s)
  BY <1>1 DEF HasStop
<1>5. OneStop(s) => OneStop(t)
  <2> SUFFICES ASSUME OneStop(s), NEW i \in DOMAIN t, NEW k \in DOMAIN t,
                      t[i] = "stopped", t[k] = "stopped"
               PROVE  i = k
    BY DEF OneStop
  <2>1. i + 1 \in DOMAIN s /\ k + 1 \in DOMAIN s /\ s[i + 1] = "stopped" /\ s[k + 1] = "stopped"
    BY <1>1
  <2>2. i + 1 = k + 1
    BY <2>1 DEF OneStop
  <2> QED
    BY <1>1, <2>2
<1>6. t # << >> => EndOf(t) = EndOf(s)
  BY <1>1 DEF EndOf
<1>7. t = << >> => EndOf(s) = Head(s)
  BY <1>1 DEF EndOf
<1> QED
  BY <1>1, <1>2, <1>3, <1>4, <1>5, <1>6, <1>7 DEF t
-----------------------------------------------------------------------------
(* What the steps of the websocket do to the fields the proof looks at.    *)

\* An interruption changes nothing but running and the inbox.
LEMMA InterruptDoes ==
  ASSUME NEW v \in WebsocketType
  PROVE  /\ Interrupt(v) \in WebsocketType
         /\ Interrupt(v).client = v.client /\ Interrupt(v).stopRun = v.stopRun
         /\ Interrupt(v).connected = v.connected /\ Interrupt(v).deferred = v.deferred
         /\ ~Interrupt(v).running
  BY DEF Interrupt, clear_all_queues, WebsocketType

\* A failure tells the application of it if there was a connection.
LEMMA FailedDoes ==
  ASSUME NEW v \in WebsocketType
  PROVE  /\ Failed(v) \in WebsocketType
         /\ Failed(v).client = v.client /\ Failed(v).stopRun = v.stopRun
         /\ Failed(v).running = v.running /\ ~Failed(v).connected
         /\ Failed(v).deferred = IF v.connected THEN v.deferred \o <<"disconnected">>
                                                ELSE v.deferred
<1>1. "disconnected" \in Callbacks \ {"stopped"}
  BY DEF Callbacks
<1>2. v.deferred \o <<"disconnected">> \in Seq(Callbacks)
  BY <1>1, PushOne DEF WebsocketType
<1>3. v.deferred \o << >> = v.deferred
  BY DEF WebsocketType
<1> QED
  BY <1>2, <1>3
  DEF Failed, on_conn_fail, clear_all_queues, Push, WebsocketType, EConnectionState

\* An established connection is announced.
LEMMA EstablishedDoes ==
  ASSUME NEW v \in WebsocketType
  PROVE  /\ Established(v) \in WebsocketType
         /\ Established(v).client = v.client /\ Established(v).stopRun = v.stopRun
         /\ Established(v).running = v.running /\ Established(v).connected
         /\ Established(v).deferred = v.deferred \o <<"connected">>
<1>1. "connected" \in Callbacks \ {"stopped"}
  BY DEF Callbacks
<1>2. v.deferred \o <<"connected">> \in Seq(Callbacks)
  BY <1>1, PushOne DEF WebsocketType
<1>3. 1 \in 1 .. MaxConnectionAttempts + 1
  BY MaxConnectionAttemptsAssumption
<1> QED
  BY <1>2, <1>3
  DEF Established, on_conn_connected, clear_all_queues, Push, WebsocketType, EConnectionState

\* A close on request gives back control, and the destruction of the socket that follows
\* adds nothing to it.
LEMMA ClosedDoes ==
  ASSUME NEW v \in WebsocketType
  PROVE  /\ ClosedOnRequest(v) \in WebsocketType
         /\ ClosedOnRequest(v).client = v.client /\ ClosedOnRequest(v).stopRun
         /\ ClosedOnRequest(v).running = v.running /\ ~ClosedOnRequest(v).connected
         /\ ClosedOnRequest(v).deferred = v.deferred \o <<"stopped", "disconnected">>
<1> DEFINE u == on_conn_close([v EXCEPT !.state = "FINALIZED"])
<1>1. v.deferred \o <<"stopped", "disconnected">> \in Seq(Callbacks)
  BY PushTwo DEF WebsocketType
<1>2. /\ u \in WebsocketType
      /\ u.client = v.client /\ u.stopRun /\ u.running = v.running /\ ~u.connected
      /\ u.deferred = v.deferred \o <<"stopped", "disconnected">>
  BY <1>1 DEF on_conn_close, clear_all_queues, Push, WebsocketType, EConnectionState
<1> HIDE DEF u
<1> QED
  BY <1>2, FailedDoes DEF ClosedOnRequest, u

\* The end of the loop gives back control unless a close has.
LEMMA ExitDoes ==
  ASSUME NEW v \in WebsocketType
  PROVE  /\ ExitLoop(v) \in WebsocketType
         /\ ExitLoop(v).client = "linger" /\ ExitLoop(v).stopRun = v.stopRun
         /\ ExitLoop(v).running = v.running /\ ExitLoop(v).connected = v.connected
         /\ ExitLoop(v).deferred =
              IF v.stopRun THEN v.deferred ELSE v.deferred \o <<"stopped", "disconnected">>
<1>1. v.deferred \o <<"stopped", "disconnected">> \in Seq(Callbacks)
  BY PushTwo DEF WebsocketType
<1>2. v.deferred \o << >> = v.deferred
  BY DEF WebsocketType
<1> QED
  BY <1>1, <1>2 DEF ExitLoop, Push, WebsocketType

\* A start puts new threads in the place of those that ended.
LEMMA StartDoes ==
  ASSUME NEW v \in WebsocketType
  PROVE  /\ StartEnds(v) \in WebsocketType
         /\ StartEnds(v).client = "connect" /\ ~StartEnds(v).stopRun
         /\ StartEnds(v).connected = v.connected /\ StartEnds(v).deferred = v.deferred
<1>1. 1 \in 1 .. MaxConnectionAttempts + 1
  BY MaxConnectionAttemptsAssumption
<1> QED
  BY <1>1 DEF StartEnds, WebsocketType, EConnectionState

\* A close leaves no thread and no connection.
LEMMA CloseDoes ==
  ASSUME NEW v \in WebsocketType
  PROVE  /\ CloseEnds(v) \in WebsocketType
         /\ CloseEnds(v).client = "none" /\ CloseEnds(v).stopRun = v.stopRun
         /\ CloseEnds(v).running = v.running
         /\ ~CloseEnds(v).connected /\ CloseEnds(v).deferred = v.deferred
  BY DEF CloseEnds, WebsocketType

\* After a lost connection the thread waits for the next attempt or leaves its loop.
LEMMA DecideDoes ==
  ASSUME NEW v \in WebsocketType
  PROVE  /\ Decide(v) \in WebsocketType
         /\ Decide(v).client \in {"delay", "exit"} /\ (v.running \/ Decide(v).client = "exit")
         /\ Decide(v).stopRun = v.stopRun /\ Decide(v).running = v.running
         /\ Decide(v).connected = v.connected /\ Decide(v).deferred = v.deferred
<1>1. v.attempts <= MaxConnectionAttempts =>
        v.attempts + 1 \in 1 .. MaxConnectionAttempts + 1
  BY MaxConnectionAttemptsAssumption DEF WebsocketType
<1>2. CASE ~v.running
  BY <1>2 DEF Decide, WebsocketType
<1>3. CASE v.running /\ v.attempts <= MaxConnectionAttempts
  BY <1>1, <1>3 DEF Decide, WebsocketType, EConnectionState
<1>4. CASE v.running /\ ~(v.attempts <= MaxConnectionAttempts)
  BY <1>4 DEF Decide, WebsocketType, EConnectionState
<1> QED
  BY <1>2, <1>3, <1>4
-----------------------------------------------------------------------------
(* The inductive invariant.                                                *)

\* The client thread will give back control.
Live == w.client \in {"connect", "service", "decide", "delay", "exit"} /\ ~w.stopRun

SomeWay == Live \/ HasStop(w.deferred) \/ timer \/ reconnect \/ call = "start"

\* No two of the ways are open at once.
Exclusive ==
  /\ Live => ~HasStop(w.deferred) /\ ~timer /\ ~reconnect /\ call # "start"
  /\ HasStop(w.deferred) => ~timer /\ ~reconnect /\ call # "start"
  /\ timer => ~reconnect /\ call # "start"
  /\ reconnect => call # "start"

\* A connection is served; a thread that was closed on request is on its way out.
ClientInv ==
  /\ w.connected => w.client = "service"
  /\ w.stopRun => w.client \in {"none", "decide", "exit", "linger", "done"} /\ ~w.running

\* One stop is queued at most, a disconnection follows it, and both have run when the
\* timer that it started expires.
DeferredInv ==
  /\ OneStop(w.deferred)
  /\ w.deferred # << >> => EndOf(w.deferred) # "stopped"
  /\ reconnect \/ call = "start" => w.deferred = << >>

\* When no way is left, the OCPP task has dropped a reconnect bit because it takes itself
\* for connected, and no callback is queued that would tell it otherwise.
BackInv ==
  /\ call # "restart"
  /\ o.up /\ ~o.halted => wants
  /\ o.up /\ ~o.halted /\ ~SomeWay => o.connected /\ w.deferred = << >>

\* Until the OCPP task starts, nothing of the websocket exists.
BeforeStart == ~o.up => w = InitWebsocket /\ call = "none" /\ ~timer /\ ~reconnect

\* The types of NetTypeOK that the connectivity task does not bring with it.
CoreTypes ==
  /\ o \in OcppType /\ w \in WebsocketType
  /\ call \in {"none"} \cup Calls
  /\ reconnect \in BOOLEAN /\ wants \in BOOLEAN /\ timer \in BOOLEAN
  /\ resumed \in BOOLEAN /\ registered \in BOOLEAN

Core ==
  /\ CoreTypes /\ Exclusive /\ ClientInv /\ DeferredInv /\ BackInv /\ BeforeStart
  /\ QueueFollowsSocket

NetIInv == IInv /\ Core
-----------------------------------------------------------------------------
(* The OCPP task.                                                          *)

\* What its calls and callbacks do to the fields about the connection.
LEMMA OcppDoes ==
  ASSUME NEW p \in OcppType
  PROVE  /\ ServeNetworkDown(p) \in OcppType
         /\ ServeNetworkDown(p).up = p.up /\ ServeNetworkDown(p).halted = p.halted
         /\ ServeNetworkDown(p).connected = p.connected
         /\ ServeReconnect(p) \in OcppType
         /\ ServeReconnect(p).up = p.up /\ ServeReconnect(p).connected = p.connected
         /\ p.halted \/ p.attempts = MaxReconnects => ServeReconnect(p).halted
         /\ \A b \in BOOLEAN :
              /\ ConnectionStateChanged(p, b) \in OcppType
              /\ ConnectionStateChanged(p, b).up = p.up
              /\ ConnectionStateChanged(p, b).halted = p.halted
              /\ ConnectionStateChanged(p, b).connected = b
<1>1. p.attempts # MaxReconnects => p.attempts + 1 \in 0 .. MaxReconnects
  BY MaxReconnectsAssumption DEF OcppType
<1>2. 0 \in 0 .. MaxReconnects
  BY MaxReconnectsAssumption
<1>3. /\ ServeNetworkDown(p) \in OcppType
      /\ ServeNetworkDown(p).up = p.up /\ ServeNetworkDown(p).halted = p.halted
      /\ ServeNetworkDown(p).connected = p.connected
  BY DEF ServeNetworkDown, OcppType
<1>4. /\ ServeReconnect(p) \in OcppType
      /\ ServeReconnect(p).up = p.up /\ ServeReconnect(p).connected = p.connected
      /\ p.halted \/ p.attempts = MaxReconnects => ServeReconnect(p).halted
  BY <1>1 DEF ServeReconnect, OcppType
<1>5. ASSUME NEW b \in BOOLEAN
      PROVE  /\ ConnectionStateChanged(p, b) \in OcppType
             /\ ConnectionStateChanged(p, b).up = p.up
             /\ ConnectionStateChanged(p, b).halted = p.halted
             /\ ConnectionStateChanged(p, b).connected = b
  BY <1>2 DEF ConnectionStateChanged, OcppType
<1> QED
  BY <1>3, <1>4, <1>5

\* Before the start there is nothing to undo: the initial state.
LEMMA NetInitHolds == NetInit => NetIInv
<1> SUFFICES ASSUME NetInit PROVE NetIInv
  OBVIOUS
<1>1. IInv
  BY InitHolds DEF NetInit
<1>2. o \in OcppType /\ ~o.up
  BY MaxReconnectsAssumption DEF NetInit, InitOcpp, OcppType, NoHandler, HandlerType
<1>3. 1 \in 1 .. MaxConnectionAttempts + 1 /\ << >> \in Seq(Callbacks)
  BY MaxConnectionAttemptsAssumption
<1>4. w \in WebsocketType
  BY <1>3 DEF NetInit, InitWebsocket, WebsocketType, EConnectionState
<1>5. /\ w.client = "none" /\ ~w.connected /\ ~w.stopRun /\ w.deferred = << >>
      /\ w = InitWebsocket
  BY DEF NetInit, InitWebsocket
<1>6. /\ ~timer /\ timer \in BOOLEAN /\ ~reconnect /\ reconnect \in BOOLEAN
      /\ ~resumed /\ resumed \in BOOLEAN /\ registered \in BOOLEAN /\ wants \in BOOLEAN
  BY Zenon DEF NetInit
<1>7. call = "none"
  BY DEF NetInit
<1>8. ~HasStop(w.deferred) /\ OneStop(w.deferred)
  BY <1>5 DEF HasStop, OneStop
<1> QED
  BY <1>1, <1>2, <1>4, <1>5, <1>6, <1>7, <1>8
  DEF NetIInv, Core, CoreTypes, Exclusive, Live, ClientInv, DeferredInv, BackInv,
      BeforeStart, QueueFollowsSocket

\* The task's start opens the first way.
LEMMA StartStep == Core /\ OcppStarts => Core'
<1> SUFFICES ASSUME Core, OcppStarts PROVE Core'
  OBVIOUS
<1>1. /\ w = InitWebsocket /\ call = "none" /\ ~timer /\ ~reconnect
      /\ UNCHANGED <<reconnect, call, timer, resumed, registered>>
  BY DEF Core, BeforeStart, OcppStarts, csms
<1>2. /\ o' \in OcppType /\ o'.up /\ wants'
      /\ w' \in WebsocketType /\ wants' \in BOOLEAN
  BY StartDoes DEF Core, CoreTypes, OcppStarts, OcppType
<1>3. w.deferred = << >> /\ ~w.connected
  BY <1>1 DEF InitWebsocket
<1>4. /\ w'.client = "connect" /\ ~w'.stopRun
      /\ w'.connected = w.connected /\ w'.deferred = w.deferred
  BY StartDoes DEF Core, CoreTypes, OcppStarts
<1>5. ~HasStop(w'.deferred) /\ OneStop(w'.deferred)
  BY <1>3, <1>4 DEF HasStop, OneStop
<1> QED
  BY <1>1, <1>2, <1>3, <1>4, <1>5
  DEF Core, CoreTypes, Exclusive, Live, SomeWay, ClientInv, DeferredInv, BackInv,
      BeforeStart, QueueFollowsSocket

\* Connected: a reconnect bit may be dropped, and the threads be interrupted.
LEMMA ConnectedStep == Core /\ TakeConnected => Core'
<1> SUFFICES ASSUME Core, TakeConnected PROVE Core'
  OBVIOUS
<1>1. /\ o.up /\ o.connected /\ call = "none" /\ ~reconnect' /\ reconnect' \in BOOLEAN
      /\ UNCHANGED <<wants, timer, resumed, registered>>
      /\ call' \in {"none", "close"}
  BY DEF TakeConnected, TakeBits, manager, csms
<1>2. o' \in OcppType /\ o'.up /\ o'.halted = o.halted /\ o'.connected = o.connected
  <2>1. o' = o \/ o' = ServeNetworkDown(o)
    BY DEF TakeConnected
  <2>2. o \in OcppType
    BY DEF Core, CoreTypes
  <2>3. CASE o' = o
    BY <1>1, <2>2, <2>3
  <2>4. CASE o' = ServeNetworkDown(o)
    BY <1>1, <2>2, <2>4, OcppDoes
  <2> QED
    BY <2>1, <2>3, <2>4
<1>3. /\ w' \in WebsocketType
      /\ w'.client = w.client /\ w'.stopRun = w.stopRun
      /\ w'.connected = w.connected /\ w'.deferred = w.deferred
      /\ w'.running => w.running
  BY InterruptDoes DEF TakeConnected, Core, CoreTypes
<1> QED
  BY <1>1, <1>2, <1>3
  DEF Core, CoreTypes, Calls, Exclusive, Live, SomeWay, ClientInv, DeferredInv, BackInv,
      BeforeStart, QueueFollowsSocket

\* Not connected: nothing but the network-down bit is dropped.
LEMMA OtherStep == Core /\ TakeOther => Core'
<1> SUFFICES ASSUME Core, TakeOther PROVE Core'
  OBVIOUS
<1>1. ~reconnect /\ ~reconnect' /\ reconnect' \in BOOLEAN
      /\ UNCHANGED <<o, call, w, wants, timer, resumed, registered>>
  BY DEF TakeOther, TakeBits, manager, csms
<1> QED
  BY <1>1
  DEF Core, CoreTypes, Exclusive, Live, SomeWay, ClientInv, DeferredInv, BackInv,
      BeforeStart, QueueFollowsSocket

\* The reconnect bit becomes a start.  The websocket is not connected: its client thread
\* would be a second way beside the bit.
LEMMA ReconnectStep == Core /\ TakeReconnect => Core'
<1> SUFFICES ASSUME Core, TakeReconnect PROVE Core'
  OBVIOUS
<1>1. ~w.connected
  BY DEF Core, CoreTypes, TakeReconnect, Exclusive, Live, ClientInv
<1>2. /\ o.up /\ reconnect /\ ~reconnect' /\ reconnect' \in BOOLEAN
      /\ call' = "start" /\ wants' /\ wants' \in BOOLEAN
      /\ UNCHANGED <<o, timer, resumed, registered>>
  BY <1>1 DEF TakeReconnect, TakeBits, csms
<1>3. /\ w' \in WebsocketType
      /\ w'.client = w.client /\ w'.stopRun = w.stopRun
      /\ w'.connected = w.connected /\ w'.deferred = w.deferred
      /\ ~w'.running
  BY InterruptDoes DEF TakeReconnect, Core, CoreTypes
<1> QED
  BY <1>2, <1>3
  DEF Core, CoreTypes, Calls, Exclusive, Live, SomeWay, ClientInv, DeferredInv, BackInv,
      BeforeStart, QueueFollowsSocket

\* The halt closes every way but a client thread's.
LEMMA HaltStep == Core /\ Halt => Core'
<1> SUFFICES ASSUME Core, Halt PROVE Core'
  OBVIOUS
<1>1. /\ o.up /\ call = "none" /\ ~reconnect' /\ reconnect' \in BOOLEAN
      /\ ~timer' /\ timer' \in BOOLEAN /\ wants' \in BOOLEAN
      /\ call' \in {"none", "stop"} /\ UNCHANGED <<resumed, registered>>
  BY DEF Halt, TakeBits, csms
<1>2. o' \in OcppType /\ o'.up /\ o'.halted
  BY <1>1, OcppDoes DEF Halt, Core, CoreTypes
<1>3. /\ w' \in WebsocketType
      /\ w'.client = w.client /\ w'.stopRun = w.stopRun
      /\ w'.connected = w.connected /\ w'.deferred = w.deferred
      /\ w'.running => w.running
  BY InterruptDoes DEF Halt, Core, CoreTypes
<1> QED
  BY <1>1, <1>2, <1>3
  DEF Core, CoreTypes, Calls, Exclusive, Live, SomeWay, ClientInv, DeferredInv, BackInv,
      BeforeStart, QueueFollowsSocket

\* A start becomes a client thread; a close changes no way, the threads having ended.
LEMMA ReturnStep == Core /\ CallReturns => Core'
<1> SUFFICES ASSUME Core, CallReturns PROVE Core'
  OBVIOUS
<1>1. /\ call' = "none" /\ call \in Calls \ {"restart"} /\ o.up
      /\ w.client \in {"none", "done"} /\ ~w.connected
      /\ UNCHANGED <<reconnect, wants, timer, resumed, registered>>
  BY DEF CallReturns, Core, CoreTypes, BackInv, BeforeStart, ClientInv, ThreadsEnded,
         manager, csms
<1>2. /\ o' \in OcppType /\ o'.up /\ (o.halted => o'.halted)
      /\ o'.connected = o.connected
  BY <1>1, OcppDoes DEF CallReturns, Core, CoreTypes, Calls
<1>3. CASE call = "start"
  <2>1. /\ w' \in WebsocketType
        /\ w'.client = "connect" /\ ~w'.stopRun
        /\ w'.connected = w.connected /\ w'.deferred = w.deferred
    BY <1>3, StartDoes DEF CallReturns, Core, CoreTypes
  <2>2. ~HasStop(w'.deferred)
    BY <1>3, <2>1 DEF Core, Exclusive
  <2> QED
    BY <1>1, <1>2, <1>3, <2>1, <2>2
    DEF Core, CoreTypes, Exclusive, Live, SomeWay, ClientInv, DeferredInv, BackInv,
        BeforeStart, QueueFollowsSocket
<1>4. CASE call # "start"
  <2>1. /\ w' \in WebsocketType
        /\ w'.client = "none" /\ w'.stopRun = w.stopRun /\ w'.running = w.running
        /\ w'.connected = w.connected /\ w'.deferred = w.deferred
    BY <1>1, <1>4, CloseDoes DEF CallReturns, Core, CoreTypes, WebsocketType
  <2> QED
    BY <1>1, <1>2, <1>4, <2>1
    DEF Core, CoreTypes, Exclusive, Live, SomeWay, ClientInv, DeferredInv, BackInv,
        BeforeStart, QueueFollowsSocket
<1> QED
  BY <1>3, <1>4
-----------------------------------------------------------------------------
(* The threads of the websocket.                                           *)

\* A websocket with a thread, a message or a callback belongs to a task that has started.
LEMMA UsedMeansUp ==
  ASSUME Core, w.client # "none" \/ w.recv # "none" \/ w.inbox \/ w.deferred # << >>
  PROVE  o.up
  BY DEF Core, BeforeStart, InitWebsocket

\* A step of a thread that pushes no callback and leaves the connection and its own way
\* as they are.
LEMMA QuietStep ==
  ASSUME Core, o.up, w' \in WebsocketType,
         UNCHANGED <<o, reconnect, call, manager, csms>>,
         w'.deferred = w.deferred, w'.connected = w.connected,
         Live' <=> Live, ClientInv'
  PROVE  Core'
<1>1. UNCHANGED <<wants, timer, resumed, registered>>
  BY DEF manager, csms
<1> QED
  BY <1>1
  DEF Core, CoreTypes, Exclusive, SomeWay, DeferredInv, BackInv, BeforeStart,
      QueueFollowsSocket

\* The connection fails: the application is told if there was one.
LEMMA FailStep ==
  ASSUME Core, w.client \in {"connect", "service"},
         UNCHANGED <<o, reconnect, call, manager, csms>>,
         w' = [Failed(w) EXCEPT !.client = "decide"]
  PROVE  Core'
<1>1. UNCHANGED <<wants, timer, resumed, registered>> /\ o.up
  BY UsedMeansUp DEF manager, csms
<1>2. /\ w' \in WebsocketType
      /\ w'.client = "decide" /\ w'.stopRun = w.stopRun /\ w'.running = w.running
      /\ ~w'.connected
      /\ w'.deferred = IF w.connected THEN w.deferred \o <<"disconnected">> ELSE w.deferred
  BY FailedDoes DEF Core, CoreTypes, WebsocketType
<1>3. Live /\ Live' /\ ~w.stopRun /\ w.deferred \in Seq(Callbacks)
  BY <1>2 DEF Core, CoreTypes, WebsocketType, ClientInv, Live
<1>4. CASE w.connected
  <2>1. "disconnected" \in Callbacks \ {"stopped"}
    BY DEF Callbacks
  <2>2. /\ w'.deferred # << >> /\ EndOf(w'.deferred) = "disconnected"
        /\ HasStop(w'.deferred) <=> HasStop(w.deferred)
        /\ OneStop(w.deferred) => OneStop(w'.deferred)
    <3>1. w'.deferred = w.deferred \o <<"disconnected">>
      BY <1>2, <1>4
    <3>2. /\ w.deferred \o <<"disconnected">> # << >>
          /\ EndOf(w.deferred \o <<"disconnected">>) = "disconnected"
          /\ HasStop(w.deferred \o <<"disconnected">>) <=> HasStop(w.deferred)
          /\ OneStop(w.deferred) => OneStop(w.deferred \o <<"disconnected">>)
      BY <1>3, <2>1, PushOne, Zenon
    <3> QED
      BY <3>1, <3>2, Zenon
  <2> QED
    BY <1>1, <1>2, <1>3, <2>2
    DEF Core, CoreTypes, Exclusive, SomeWay, ClientInv, DeferredInv, BackInv, BeforeStart,
        QueueFollowsSocket, EndOf
<1>5. CASE ~w.connected
  <2>1. ClientInv' /\ w'.connected = w.connected /\ w'.deferred = w.deferred
    BY <1>2, <1>3, <1>5 DEF ClientInv, Core, CoreTypes, WebsocketType
  <2> QED
    BY <1>1, <1>2, <1>3, <2>1, QuietStep
<1> QED
  BY <1>4, <1>5

\* The handshake succeeds.
LEMMA EstablishedStep == Core /\ ClientEstablished => Core'
<1> SUFFICES ASSUME Core, ClientEstablished PROVE Core'
  OBVIOUS
<1>1. UNCHANGED <<o, reconnect, call, wants, timer, resumed, registered>> /\ o.up
  BY UsedMeansUp DEF ClientEstablished, ClientStep, manager, csms
<1>2. /\ w' \in WebsocketType /\ w.client = "service"
      /\ w'.client = w.client /\ w'.stopRun = w.stopRun /\ w'.running = w.running
      /\ w'.connected /\ w'.deferred = w.deferred \o <<"connected">>
  BY EstablishedDoes DEF Core, CoreTypes, ClientEstablished, ClientStep
<1>3. Live /\ Live' /\ w.deferred \in Seq(Callbacks)
  BY <1>2 DEF Core, CoreTypes, WebsocketType, ClientInv, Live
<1>4. "connected" \in Callbacks \ {"stopped"}
  BY DEF Callbacks
<1>5. /\ w'.deferred # << >> /\ EndOf(w'.deferred) = "connected"
      /\ HasStop(w'.deferred) <=> HasStop(w.deferred)
      /\ OneStop(w.deferred) => OneStop(w'.deferred)
  BY <1>2, <1>3, <1>4, PushOne
<1> QED
  BY <1>1, <1>2, <1>3, <1>5
  DEF Core, CoreTypes, Exclusive, SomeWay, ClientInv, DeferredInv, BackInv, BeforeStart,
      QueueFollowsSocket, EndOf

\* Control is given back, by a close on request or at the end of the loop: the stop in
\* the queue takes the place of the thread.
LEMMA StoppedStep ==
  ASSUME Core, Live, o.up,
         UNCHANGED <<o, reconnect, call, manager, csms>>,
         w' \in WebsocketType, ~w'.connected, ~Live', ClientInv',
         w'.deferred = w.deferred \o <<"stopped", "disconnected">>
  PROVE  Core'
<1>1. UNCHANGED <<wants, timer, resumed, registered>> /\ w.deferred \in Seq(Callbacks)
  BY DEF manager, csms, Core, CoreTypes, WebsocketType
<1>2. /\ w'.deferred # << >> /\ EndOf(w'.deferred) = "disconnected"
      /\ HasStop(w'.deferred)
      /\ ~HasStop(w.deferred) => OneStop(w'.deferred)
  BY <1>1, PushTwo
<1> QED
  BY <1>1, <1>2
  DEF Core, CoreTypes, Exclusive, SomeWay, DeferredInv, BackInv, BeforeStart,
      QueueFollowsSocket, EndOf

\* The client thread.
LEMMA ClientKeeps == Core /\ ClientThread => Core'
<1> SUFFICES ASSUME Core, ClientThread PROVE Core'
  OBVIOUS
<1>1. w \in WebsocketType /\ ClientInv
  BY DEF Core, CoreTypes
<1>2. UNCHANGED <<o, reconnect, call, manager, csms>>
  BY DEF ClientThread, ClientConnects, ClientEstablished, ClientFailed, ClientInterrupted,
         ClientDecides, ClientWaits, ClientExits, ClientEnds, ClientStep
<1>3. o.up
  BY UsedMeansUp
  DEF ClientThread, ClientConnects, ClientEstablished, ClientFailed, ClientInterrupted,
      ClientDecides, ClientWaits, ClientExits, ClientEnds
<1>4. CASE ClientConnects
  <2>1. w.client = "connect" /\ ~w.connected /\ ~w.stopRun
    BY <1>1, <1>4 DEF ClientConnects, ClientInv
  <2>2. CASE w' = ConnectBegins(w)
    <3>1. /\ w' \in WebsocketType /\ w'.client = "service" /\ ~w'.stopRun
          /\ w'.connected = w.connected /\ w'.deferred = w.deferred
      BY <1>1, <2>2 DEF ConnectBegins, WebsocketType, EConnectionState
    <3>2. Live /\ Live' /\ ClientInv'
      BY <1>1, <2>1, <3>1 DEF Live, ClientInv, WebsocketType
    <3> QED
      BY <1>2, <1>3, <3>1, <3>2, QuietStep
  <2>3. CASE w' = ConnectFails(w)
    <3>1. [w EXCEPT !.stopRun = FALSE] \in WebsocketType
      BY <1>1 DEF WebsocketType
    <3> DEFINE v == [w EXCEPT !.stopRun = FALSE]
    <3>2. /\ v \in WebsocketType /\ v.stopRun = FALSE /\ v.running = w.running
          /\ v.connected = w.connected /\ v.deferred = w.deferred
      BY <1>1, <3>1 DEF WebsocketType
    <3> HIDE DEF v
    <3>3. w' = [Failed(v) EXCEPT !.client = "decide"]
      BY <2>3 DEF ConnectFails, v
    <3>4. /\ Failed(v) \in WebsocketType /\ ~Failed(v).stopRun /\ ~Failed(v).connected
          /\ Failed(v).deferred = w.deferred
      BY <2>1, <3>2, FailedDoes
    <3>5. /\ w' \in WebsocketType /\ w'.client = "decide" /\ ~w'.stopRun
          /\ ~w'.connected /\ w'.deferred = w.deferred
      BY <3>3, <3>4 DEF WebsocketType
    <3>6. Live /\ Live' /\ ClientInv' /\ w'.connected = w.connected
      BY <1>1, <2>1, <3>5 DEF Live, ClientInv, WebsocketType
    <3> QED
      BY <1>2, <1>3, <3>5, <3>6, QuietStep
  <2> QED
    BY <1>4, <2>2, <2>3 DEF ClientConnects, ClientStep
<1>5. CASE ClientEstablished
  BY <1>5, EstablishedStep
<1>6. CASE ClientFailed
  BY <1>2, <1>6, FailStep DEF ClientFailed, ClientStep
<1>7. CASE ClientInterrupted
  <2>1. w.client = "service" /\ ~w.running /\ w' = [ClosedOnRequest(w) EXCEPT !.client = "decide"]
    BY <1>7 DEF ClientInterrupted, ClientStep
  <2>2. /\ w' \in WebsocketType
        /\ w'.client = "decide" /\ w'.stopRun /\ w'.running = w.running /\ ~w'.connected
        /\ w'.deferred = w.deferred \o <<"stopped", "disconnected">>
    <3> DEFINE u == ClosedOnRequest(w)
    <3>1. /\ u \in WebsocketType /\ u.stopRun = TRUE /\ u.running = w.running
          /\ u.connected = FALSE
          /\ u.deferred = w.deferred \o <<"stopped", "disconnected">>
      BY <1>1, ClosedDoes DEF WebsocketType
    <3>2. w' = [u EXCEPT !.client = "decide"]
      BY <2>1
    <3> HIDE DEF u
    <3> QED
      BY <3>1, <3>2 DEF WebsocketType
  <2>3. Live /\ ~Live' /\ ClientInv'
    BY <1>1, <2>1, <2>2 DEF Live, ClientInv, WebsocketType
  <2> QED
    BY <1>2, <1>3, <2>2, <2>3, StoppedStep
<1>8. CASE ClientDecides
  <2>1. w.client = "decide" /\ w' = Decide(w)
    BY <1>8 DEF ClientDecides, ClientStep
  <2>2. /\ w' \in WebsocketType
        /\ w'.client \in {"delay", "exit"} /\ (w.running \/ w'.client = "exit")
        /\ w'.stopRun = w.stopRun /\ w'.running = w.running
        /\ w'.connected = w.connected /\ w'.deferred = w.deferred
    BY <1>1, <2>1, DecideDoes
  <2>3. (Live' <=> Live) /\ ClientInv'
    BY <1>1, <2>1, <2>2 DEF Live, ClientInv, WebsocketType
  <2> QED
    BY <1>2, <1>3, <2>2, <2>3, QuietStep
<1>9. CASE ClientWaits
  <2>1. w.client = "delay" /\ w' = DelayEnds(w)
    BY <1>9 DEF ClientWaits, ClientStep
  <2>2. /\ w' \in WebsocketType
        /\ w'.client \in {"connect", "exit"} /\ w'.stopRun = w.stopRun
        /\ w'.running = w.running
        /\ w'.connected = w.connected /\ w'.deferred = w.deferred
    BY <1>1, <2>1 DEF DelayEnds, WebsocketType
  <2>3. (Live' <=> Live) /\ ClientInv'
    BY <1>1, <2>1, <2>2 DEF Live, ClientInv, WebsocketType
  <2> QED
    BY <1>2, <1>3, <2>2, <2>3, QuietStep
<1>10. CASE ClientExits
  <2>1. w.client = "exit" /\ w' = ExitLoop(w)
    BY <1>10 DEF ClientExits, ClientStep
  <2>2. /\ w' \in WebsocketType
        /\ w'.client = "linger" /\ w'.stopRun = w.stopRun
        /\ w'.running = w.running /\ w'.connected = w.connected
        /\ w'.deferred = IF w.stopRun THEN w.deferred
                         ELSE w.deferred \o <<"stopped", "disconnected">>
    BY <1>1, <2>1, ExitDoes
  <2>3. ~Live' /\ ClientInv' /\ ~w.connected /\ ~w'.connected
    BY <1>1, <2>1, <2>2 DEF Live, ClientInv, WebsocketType
  <2>4. CASE w.stopRun
    <3>1. ~Live /\ w'.deferred = w.deferred
      BY <2>2, <2>4 DEF Live
    <3> QED
      BY <1>2, <1>3, <2>2, <2>3, <3>1, QuietStep
  <2>5. CASE ~w.stopRun
    <3>1. Live /\ w'.deferred = w.deferred \o <<"stopped", "disconnected">>
      BY <2>1, <2>2, <2>5 DEF Live
    <3> QED
      BY <1>2, <1>3, <2>2, <2>3, <3>1, StoppedStep
  <2> QED
    BY <2>4, <2>5
<1>11. CASE ClientEnds
  <2>1. w.client = "linger" /\ w' = [w EXCEPT !.client = "done"]
    BY <1>11 DEF ClientEnds, ClientStep
  <2>2. /\ w' \in WebsocketType
        /\ w'.client = "done" /\ w'.stopRun = w.stopRun /\ w'.running = w.running
        /\ w'.connected = w.connected /\ w'.deferred = w.deferred
    BY <1>1, <2>1 DEF WebsocketType
  <2>3. (Live' <=> Live) /\ ClientInv'
    BY <1>1, <2>1, <2>2 DEF Live, ClientInv, WebsocketType
  <2> QED
    BY <1>2, <1>3, <2>2, <2>3, QuietStep
<1> QED
  BY <1>4, <1>5, <1>6, <1>7, <1>8, <1>9, <1>10, <1>11 DEF ClientThread

\* The receive thread, and the answer of the CSMS.
LEMMA ReceiveKeeps == Core /\ (RecvThread \/ BootAnswered) => Core'
<1> SUFFICES ASSUME Core, RecvThread \/ BootAnswered PROVE Core'
  OBVIOUS
<1>1. w \in WebsocketType /\ ClientInv /\ o \in OcppType
  BY DEF Core, CoreTypes
<1>2. o.up
  BY UsedMeansUp DEF RecvThread, RecvTakes, RecvEnds, BootNotification_Cb, BootAnswered
<1>3. /\ w' \in WebsocketType
      /\ w'.client = w.client /\ w'.stopRun = w.stopRun /\ w'.running = w.running
      /\ w'.connected = w.connected /\ w'.deferred = w.deferred
  BY <1>1
  DEF RecvThread, RecvTakes, RecvEnds, BootNotification_Cb, BootAnswered, ClientStep,
      WebsocketType
<1>4. (Live' <=> Live) /\ ClientInv'
  BY <1>1, <1>3 DEF Live, ClientInv
<1>5. CASE RecvTakes \/ RecvEnds \/ BootAnswered
  <2>1. UNCHANGED <<o, reconnect, call, manager, csms>>
    BY <1>5 DEF RecvTakes, RecvEnds, BootAnswered, ClientStep
  <2> QED
    BY <1>2, <1>3, <1>4, <2>1, QuietStep
<1>6. CASE BootNotification_Cb
  <2>1. /\ UNCHANGED <<reconnect, call, wants, timer, resumed>>
        /\ registered' \in BOOLEAN /\ o' = ConnectionStateChanged(o, TRUE)
    BY <1>6 DEF BootNotification_Cb, manager
  <2>2. o' \in OcppType /\ o'.up = o.up /\ o'.halted = o.halted /\ o'.connected = TRUE
    BY <1>1, <2>1, OcppDoes
  <2> QED
    BY <1>2, <1>3, <1>4, <2>1, <2>2
    DEF Core, CoreTypes, Exclusive, SomeWay, DeferredInv, BackInv, BeforeStart,
        QueueFollowsSocket
<1> QED
  BY <1>5, <1>6 DEF RecvThread

\* The thread of the deferred callbacks: a stop becomes the timer.
LEMMA DeferredKeeps == Core /\ DeferredThread => Core'
<1> SUFFICES ASSUME Core, DeferredThread PROVE Core'
  OBVIOUS
<1>1. w \in WebsocketType /\ ClientInv /\ o \in OcppType /\ w.deferred \in Seq(Callbacks)
  BY DEF Core, CoreTypes, WebsocketType
<1>2. RunDeferred
  BY DEF DeferredThread, websocket_connected_callback, websocket_disconnected_callback,
         on_websocket_stopped_connecting
<1>3. /\ w.deferred # << >> /\ w' = [w EXCEPT !.deferred = Tail(w.deferred)]
      /\ UNCHANGED <<reconnect, call, wants, registered>>
  BY <1>2 DEF RunDeferred
<1>4. o.up /\ ~reconnect /\ call # "start"
  BY <1>3, UsedMeansUp DEF Core, DeferredInv
<1> DEFINE s == w.deferred
<1> DEFINE t == Tail(w.deferred)
<1>5. /\ t \in Seq(Callbacks) /\ Head(s) \in Callbacks
      /\ Head(s) # "stopped" => (HasStop(t) <=> HasStop(s))
      /\ OneStop(s) /\ Head(s) = "stopped" => ~HasStop(t)
      /\ Head(s) = "stopped" => HasStop(s)
      /\ OneStop(s) => OneStop(t)
      /\ t # << >> => EndOf(t) = EndOf(s)
      /\ t = << >> => EndOf(s) = Head(s)
  BY <1>1, <1>3, PopOne
<1>6. /\ w' \in WebsocketType /\ w'.deferred = t
      /\ w'.client = w.client /\ w'.stopRun = w.stopRun /\ w'.running = w.running
      /\ w'.connected = w.connected
  BY <1>1, <1>3, <1>5 DEF WebsocketType
<1> HIDE DEF t, s
<1>7. (Live' <=> Live) /\ ClientInv'
  BY <1>1, <1>6 DEF Live, ClientInv
<1>8. /\ OneStop(s) /\ EndOf(s) # "stopped"
      /\ w.connected <=> EndOf(s) = "connected"
  BY <1>3 DEF s, Core, DeferredInv, QueueFollowsSocket, EndOf
<1>9. CASE websocket_connected_callback
  <2>1. /\ Head(s) = "connected" /\ resumed' /\ resumed' \in BOOLEAN
        /\ o' = ConnectionStateChanged(o, TRUE) /\ UNCHANGED timer
    BY <1>9 DEF websocket_connected_callback, s
  <2>2. o' \in OcppType /\ o'.up = o.up /\ o'.halted = o.halted
    BY <1>1, <2>1, OcppDoes
  <2>3. HasStop(t) <=> HasStop(s)
    BY <1>5, <2>1
  <2>4. SomeWay' <=> SomeWay
    BY <1>3, <1>6, <1>7, <2>1, <2>3 DEF SomeWay, s
  <2>5. SomeWay \/ o.halted
    BY <1>3, <1>4 DEF Core, BackInv
  <2>6. QueueFollowsSocket'
    BY <1>5, <1>6, <1>8, <2>1 DEF QueueFollowsSocket, EndOf
  <2> QED
    BY <1>3, <1>4, <1>5, <1>6, <1>7, <1>8, <2>1, <2>2, <2>3, <2>4, <2>5, <2>6
    DEF Core, CoreTypes, Exclusive, DeferredInv, BackInv, BeforeStart, s
<1>10. CASE websocket_disconnected_callback
  <2>1. /\ Head(s) = "disconnected" /\ ~resumed' /\ resumed' \in BOOLEAN
        /\ o' = ConnectionStateChanged(o, FALSE) /\ UNCHANGED timer
    BY <1>10 DEF websocket_disconnected_callback, s
  <2>2. o' \in OcppType /\ o'.up = o.up /\ o'.halted = o.halted
    BY <1>1, <2>1, OcppDoes
  <2>3. HasStop(t) <=> HasStop(s)
    BY <1>5, <2>1
  <2>4. SomeWay' <=> SomeWay
    BY <1>3, <1>6, <1>7, <2>1, <2>3 DEF SomeWay, s
  <2>5. SomeWay \/ o.halted
    BY <1>3, <1>4 DEF Core, BackInv
  <2>6. QueueFollowsSocket'
    BY <1>5, <1>6, <1>8, <2>1 DEF QueueFollowsSocket, EndOf
  <2> QED
    BY <1>3, <1>4, <1>5, <1>6, <1>7, <1>8, <2>1, <2>2, <2>3, <2>4, <2>5, <2>6
    DEF Core, CoreTypes, Exclusive, DeferredInv, BackInv, BeforeStart, s
<1>11. CASE on_websocket_stopped_connecting
  <2>1. /\ Head(s) = "stopped" /\ UNCHANGED <<o, resumed>>
        /\ timer' = (timer \/ wants)
    BY <1>11 DEF on_websocket_stopped_connecting, s
  <2>2. HasStop(s) /\ ~HasStop(t) /\ OneStop(t)
    BY <1>5, <1>8, <2>1
  <2>3. t # << >> /\ EndOf(t) = EndOf(s)
    BY <1>5, <1>8, <2>1
  <2>4. ~Live /\ ~timer /\ timer' = wants /\ timer' \in BOOLEAN
    BY <2>1, <2>2 DEF Core, CoreTypes, Exclusive, s
  <2>5. ~o.halted => timer'
    BY <1>4, <2>4 DEF Core, BackInv
  <2>6. QueueFollowsSocket'
    BY <1>6, <1>8, <2>3 DEF QueueFollowsSocket, EndOf
  <2> QED
    BY <1>3, <1>4, <1>5, <1>6, <1>7, <1>8, <2>1, <2>2, <2>3, <2>4, <2>5, <2>6
    DEF Core, CoreTypes, Exclusive, SomeWay, DeferredInv, BackInv, BeforeStart
<1> QED
  BY <1>9, <1>10, <1>11 DEF DeferredThread

\* The timer becomes the reconnect bit, when no callback is left.
LEMMA TimerKeeps == Core /\ TimerExpires => Core'
<1> SUFFICES ASSUME Core, TimerExpires PROVE Core'
  OBVIOUS
<1>1. /\ timer /\ ~timer' /\ timer' \in BOOLEAN /\ reconnect' /\ reconnect' \in BOOLEAN
      /\ w.deferred = << >>
      /\ UNCHANGED <<o, call, w, wants, resumed, registered>>
  BY DEF TimerExpires, csms
<1> QED
  BY <1>1
  DEF Core, CoreTypes, Exclusive, Live, SomeWay, ClientInv, DeferredInv, BackInv,
      BeforeStart, QueueFollowsSocket
-----------------------------------------------------------------------------
(* The theorems.                                                           *)

\* For the connectivity task the OCPP task does no more than take the network-down bit.
LEMMA LinkKeeps == NetIInv /\ [NetNext]_netVars => IInv'
<1> SUFFICES ASSUME NetIInv, [NetNext]_netVars PROVE IInv'
  OBVIOUS
<1>1. IInv /\ downRaised \in BOOLEAN
  BY DEF NetIInv, IInv, TypeOK
<1>2. [Next]_vars => IInv'
  BY <1>1, TypeStep, PlaceStep DEF IInv
<1>3. CASE ConnectivityTask \/ LinkChanges \/ ConnectivityError
  BY <1>2, <1>3 DEF ConnectivityTask, LinkChanges, ConnectivityError, Next
<1>4. CASE TakeBits
  <2>1. CASE downRaised
    BY <1>2, <1>4, <2>1 DEF TakeBits, TakeDown, Next
  <2>2. CASE ~downRaised
    <3>1. downRaised' = downRaised
      BY <1>1, <1>4, <2>2, Zenon DEF TakeBits
    <3>2. UNCHANGED vars
      BY <1>4, <3>1 DEF TakeBits, vars, task
    <3> QED
      BY <1>2, <3>2
  <2> QED
    BY <2>1, <2>2
<1>5. CASE UNCHANGED vars
  BY <1>2, <1>5
<1>6. OcppTask => TakeBits \/ UNCHANGED vars
  BY DEF OcppTask, OcppStarts, TakeConnected, TakeOther, TakeReconnect, Halt, CallReturns
<1>7. ClientThread \/ BootAnswered \/ RecvThread \/ DeferredThread \/ TimerExpires
        => UNCHANGED vars
  BY DEF ClientThread, ClientConnects, ClientEstablished, ClientFailed, ClientInterrupted,
         ClientDecides, ClientWaits, ClientExits, ClientEnds, ClientStep, BootAnswered,
         RecvThread, RecvTakes, RecvEnds, BootNotification_Cb, DeferredThread,
         websocket_connected_callback, websocket_disconnected_callback,
         on_websocket_stopped_connecting, RunDeferred, TimerExpires
<1> QED
  BY <1>3, <1>4, <1>5, <1>6, <1>7 DEF NetNext, netVars

\* The rest of the invariant survives a step of any task, thread or of the timer.
LEMMA CoreKeeps == NetIInv /\ [NetNext]_netVars => Core'
<1> SUFFICES ASSUME NetIInv, [NetNext]_netVars PROVE Core'
  OBVIOUS
<1>1. Core
  BY DEF NetIInv
<1>2. CASE Rest
  <2>1. UNCHANGED <<o, reconnect, call, w, wants, timer, resumed, registered>>
    BY <1>2 DEF Rest, manager, csms
  <2> QED
    BY <1>1, <2>1
    DEF Core, CoreTypes, Exclusive, Live, SomeWay, ClientInv, DeferredInv, BackInv,
        BeforeStart, QueueFollowsSocket
<1>3. ConnectivityTask \/ LinkChanges \/ ConnectivityError \/ UNCHANGED netVars => Rest
  BY DEF ConnectivityTask, LinkChanges, ConnectivityError, Rest, netVars
<1>4. CASE OcppTask
  BY <1>1, <1>4, StartStep, ConnectedStep, OtherStep, ReconnectStep, HaltStep, ReturnStep
  DEF OcppTask
<1> QED
  BY <1>1, <1>2, <1>3, <1>4, ClientKeeps, ReceiveKeeps, DeferredKeeps, TimerKeeps
  DEF NetNext

\* The ways back exclude each other, each with what makes it the only one, after every
\* step of the tasks, the threads and the timer.
THEOREM NetworkInvariant == NetSpec => []NetIInv
<1>1. NetIInv /\ [NetNext]_netVars => NetIInv'
  BY LinkKeeps, CoreKeeps DEF NetIInv
<1> QED
  BY NetInitHolds, <1>1, PTL DEF NetSpec

\* Tasks, websocket and counters of attempts stay in their types.
THEOREM NetworkTypes == NetSpec => []NetTypeOK
<1>1. NetIInv => NetTypeOK
  BY DEF NetIInv, Core, CoreTypes, IInv, NetTypeOK
<1> QED
  BY NetworkInvariant, <1>1, PTL

\* At most one way back is open, and one is open while the station knows it is offline.
THEOREM OneWayAlways == NetSpec => []OneWayBack
<1>1. NetIInv => OneWayBack
  <2> SUFFICES ASSUME NetIInv PROVE OneWayBack
    OBVIOUS
  <2> DEFINE a == Count(Live)
             b == Count(HasStop(w.deferred))
             c == Count(timer)
             d == Count(reconnect)
             e == Count(call = "start")
  <2>1. Exclusive /\ (o.up /\ ~o.halted /\ ~o.connected => SomeWay)
    BY DEF NetIInv, Core, BackInv
  <2>2. Ways = a + b + c + d + e
    BY DEF Ways, Live, HasStop
  <2>3. /\ a = IF Live THEN 1 ELSE 0
        /\ b = IF HasStop(w.deferred) THEN 1 ELSE 0
        /\ c = IF timer THEN 1 ELSE 0
        /\ d = IF reconnect THEN 1 ELSE 0
        /\ e = IF call = "start" THEN 1 ELSE 0
    BY DEF Count
  <2> HIDE DEF a, b, c, d, e
  <2>4. a + b + c + d + e <= 1 /\ (SomeWay => a + b + c + d + e = 1)
    BY <2>1, <2>3 DEF Exclusive, SomeWay
  <2> QED
    BY <2>1, <2>2, <2>4 DEF OneWayBack
<1> QED
  BY NetworkInvariant, <1>1, PTL

\* However callbacks are deferred, the message queue ends up resumed exactly when the
\* websocket is connected.
THEOREM QueueFollowsAlways == NetSpec => []QueueFollowsSocket
<1>1. NetIInv => QueueFollowsSocket
  BY DEF NetIInv, Core
<1> QED
  BY NetworkInvariant, <1>1, PTL
=============================================================================
