------------------------- MODULE Connectivity_proofs ------------------------
(***************************************************************************)
(* Proofs about the connectivity task, for every limit of the attempts and *)
(* of the lost pings and every number of link events.                      *)
(***************************************************************************)
EXTENDS Connectivity, TLAPS

\* The part of the types that is about flags.
Flags ==
  /\ hasTime \in BOOLEAN /\ ocppUp \in BOOLEAN /\ downRaised \in BOOLEAN
  /\ joined \in BOOLEAN /\ link \in BOOLEAN

\* A failed resolution is counted once more before the limit is looked at.
TriesLeft == at = "dns" => tries < SyncMax

\* The places from which the task gets to its switch without writing the state; a link
\* event writes a state that has a case.
CaseAhead == at \in {"switch", "down", "ping"} => state \in DOMAIN Cases

\* The time is known wherever OCPP was or is about to be started.
TimeAhead ==
  (ocppUp \/ at \in {"synced", "ocpp", "online"} \/ state = "OCPP_Init") => hasTime

IInv == TypeOK /\ TriesLeft /\ CaseAhead /\ TimeAhead

\* The states that have a case.
LEMMA CaseNames ==
  DOMAIN Cases = {"NotConnected", "InitComunicationModule", "InitCommunicationStack",
                  "APConnected", "DHCPRequest", "NetworkDisconnected",
                  "NetworkConnected", "OCPP_Init"}
  BY DEF Cases

\* The initial state has its types, and the task is in its switch with a case.
LEMMA InitHolds == Init => IInv
<1> SUFFICES ASSUME Init PROVE IInv
  OBVIOUS
<1>1. Flags /\ TimeAhead
  BY Zenon DEF Init, Flags, TimeAhead
<1>2. TypeOK
  BY <1>1, ConnectivityAssumption, CaseNames
  DEF Init, Flags, TypeOK, ConnectionStates, Places
<1>3. TriesLeft /\ CaseAhead
  BY ConnectivityAssumption, CaseNames DEF Init, TriesLeft, CaseAhead
<1> QED
  BY <1>1, <1>2, <1>3 DEF IInv

\* Every case of the switch leads to a function of the task, and only OCPP_Init to the
\* start of OCPP.
LEMMA CasesLead ==
  ASSUME NEW s \in DOMAIN Cases
  PROVE  /\ Cases[s] \in Places \ {"switch", "dns", "synced", "online", "error"}
         /\ Cases[s] = "ocpp" => s = "OCPP_Init"
  BY DEF Cases, Places

\* The types survive a step of the task or of the WiFi layer.
LEMMA TypeStep == IInv /\ [Next]_vars => TypeOK'
<1> SUFFICES ASSUME IInv, [Next]_vars PROVE TypeOK'
  OBVIOUS
<1> USE ConnectivityAssumption, CaseNames
    DEF IInv, TypeOK, ConnectionStates, SetState, Goto, wifi, used
<1>1. CASE Dispatch
  BY <1>1, CasesLead DEF Dispatch, Places
<1>2. CASE ModuleInit \/ StackInit \/ AddNetwork \/ ApConnected \/ DHCP_StartClient
  BY <1>2 DEF ModuleInit, StackInit, AddNetwork, ApConnected, DHCP_StartClient, Places
<1>3. CASE Join \/ Synced \/ OcppInit \/ Online \/ ReportDown
  BY <1>3 DEF Join, Synced, OcppInit, Online, ReportDown, Places
<1>4. CASE SntpRequest \/ ResolveServer
  BY <1>4 DEF SntpRequest, ResolveServer, TriesLeft, Places
<1>5. CASE Sync
  <2>1. Flags'
    BY <1>5, Zenon DEF Sync, Flags
  <2> QED
    BY <1>5, <2>1 DEF Sync, Flags, Places
<1>6. CASE PingAnswered \/ PingLost \/ PingNotSent
  BY <1>6 DEF PingAnswered, PingLost, PingNotSent, Places
<1>7. CASE LinkLost \/ LinkEstablished
  <2>1. Flags'
    BY <1>7, Zenon DEF LinkLost, LinkEstablished, Flags
  <2> QED
    BY <1>7, <2>1 DEF LinkLost, LinkEstablished, LinkStatusChangeCallback, Flags
<1>8. CASE TakeDown
  BY <1>8 DEF TakeDown
<1>9. CASE ErrorLoop \/ UNCHANGED vars
  BY <1>9 DEF ErrorLoop, vars, task
<1> QED
  BY <1>1, <1>2, <1>3, <1>4, <1>5, <1>6, <1>7, <1>8, <1>9 DEF Next, Task

\* What is known of attempts, state and time at each place survives a step.
LEMMA PlaceStep == IInv /\ [Next]_vars => (TriesLeft /\ CaseAhead /\ TimeAhead)'
<1> SUFFICES ASSUME IInv, [Next]_vars PROVE (TriesLeft /\ CaseAhead /\ TimeAhead)'
  OBVIOUS
<1> USE ConnectivityAssumption, CaseNames
    DEF IInv, TriesLeft, CaseAhead, TimeAhead, SetState, Goto, wifi, used
<1>1. CASE Dispatch
  BY <1>1, CasesLead DEF Dispatch
<1>2. CASE ModuleInit \/ StackInit \/ AddNetwork \/ ApConnected \/ DHCP_StartClient
  BY <1>2 DEF ModuleInit, StackInit, AddNetwork, ApConnected, DHCP_StartClient
<1>3. CASE Join \/ Synced \/ OcppInit \/ Online \/ ReportDown
  BY <1>3 DEF Join, Synced, OcppInit, Online, ReportDown
<1>4. CASE SntpRequest \/ ResolveServer
  BY <1>4 DEF SntpRequest, ResolveServer, TypeOK
<1>5. CASE Sync
  BY <1>5 DEF Sync
<1>6. CASE PingAnswered \/ PingLost \/ PingNotSent
  BY <1>6 DEF PingAnswered, PingLost, PingNotSent
<1>7. CASE LinkLost \/ LinkEstablished
  BY <1>7 DEF LinkLost, LinkEstablished, LinkStatusChangeCallback
<1>8. CASE TakeDown
  BY <1>8 DEF TakeDown
<1>9. CASE ErrorLoop \/ UNCHANGED vars
  BY <1>9 DEF ErrorLoop, vars, task
<1> QED
  BY <1>1, <1>2, <1>3, <1>4, <1>5, <1>6, <1>7, <1>8, <1>9 DEF Next, Task

\* After every step of the task, of the callback of the WiFi layer and of the OCPP task,
\* each place of the task knows that the attempts, the state and the time are in order.
THEOREM ConnectivityInvariant == Spec => []IInv
<1>1. IInv /\ [Next]_vars => IInv'
  BY TypeStep, PlaceStep DEF IInv
<1> QED
  BY InitHolds, <1>1, PTL DEF Spec

\* Attempts, lost pings and link events stay within their limits.
THEOREM ConnectivityTypes == Spec => []TypeOK
<1>1. IInv => TypeOK
  BY DEF IInv
<1> QED
  BY ConnectivityInvariant, <1>1, PTL

\* Wherever the callback of the WiFi layer strikes, the switch finds a case.
THEOREM SwitchHasCase == Spec => []NoErrorState
<1>1. IInv => NoErrorState
  BY DEF IInv, CaseAhead, NoErrorState
<1> QED
  BY ConnectivityInvariant, <1>1, PTL

\* On every path of losses and returns OCPP starts with the time known.
THEOREM OcppStartsWithTime == Spec => []OcppHasTime
<1>1. IInv => OcppHasTime
  BY DEF IInv, TimeAhead, OcppHasTime
<1> QED
  BY ConnectivityInvariant, <1>1, PTL

(***************************************************************************)
(* How long a running OCPP task waits for the report of an outage: what    *)
(* OutageIsReported says for ever, with the steps of the task counted.     *)
(***************************************************************************)

\* The start of the WiFi module is not repeated: once the time is known, or asked for,
\* neither the place nor a state that the callback writes leads back to it.
StartIsOver ==
  hasTime \/ at \in {"dhcp", "sntp", "dns", "sync", "synced", "ocpp", "online", "down", "ping"}
  => /\ at \notin {"module", "stack", "ap", "join", "joined"}
     /\ state \notin {"NotConnected", "InitComunicationModule", "InitCommunicationStack"}

\* The steps of the task until the report: the pings that may still be lost, or the way
\* through DHCP and SNTP to the first of them.
FromPing == 2 * (PingMaxFails - fails) + 3
Restart  == 2 * PingMaxFails + SyncMax + 13
FromSwitch ==
  CASE state = "NetworkDisconnected" -> 2
    [] state = "NetworkConnected"    -> FromPing + 1
    [] state = "OCPP_Init"           -> 2 * PingMaxFails + 7
    [] state = "DHCPRequest"         -> Restart - 2
    [] OTHER                         -> Restart
ToReport ==
  CASE at = "down"   -> 1
    [] at = "switch" -> FromSwitch
    [] at = "ping"   -> IF state = "NetworkConnected" THEN FromPing ELSE FromSwitch + 1
    [] at = "online" -> 2 * PingMaxFails + 5
    [] at = "ocpp"   -> 2 * PingMaxFails + 6
    [] at = "synced" -> 2 * PingMaxFails + 8
    [] at = "sync"   -> 2 * PingMaxFails + 9
    [] at = "dns"    -> 2 * PingMaxFails + 9 + (SyncMax - tries)
    [] at = "sntp"   -> Restart - 3
    [] OTHER         -> Restart - 1

\* The steps of the task in an outage that are counted: no error loop, and a ping that
\* is sent.
OutageStep == ocppUp /\ ~link /\ Task /\ at' # "error" /\ sendErrors' = sendErrors

ReportedInTime ==
  /\ [](ToReport \in 1 .. Restart + 1)
  /\ [][OutageStep => ToReport' < ToReport \/ (ReportDown /\ downRaised')]_vars

\* The start stays over, whatever the callback writes.
LEMMA StartStaysOver == IInv /\ StartIsOver /\ [Next]_vars => StartIsOver'
<1> SUFFICES ASSUME IInv, StartIsOver, [Next]_vars PROVE StartIsOver'
  OBVIOUS
<1> USE DEF StartIsOver, SetState, Goto, wifi, used
<1>1. CASE Dispatch
  <2>1. /\ state \in DOMAIN Cases /\ at' = Cases[state] /\ UNCHANGED <<state, hasTime>>
    BY <1>1 DEF Dispatch, IInv, CaseAhead
  <2>2. Cases[state] \in {"module", "stack", "ap"} <=>
          state \in {"NotConnected", "InitComunicationModule", "InitCommunicationStack"}
    BY <2>1 DEF Cases
  <2>3. Cases[state] \notin {"join", "joined"}
    BY <2>1 DEF Cases
  <2> QED
    BY <1>1, <2>1, <2>2, <2>3 DEF Dispatch
<1>2. CASE ModuleInit \/ StackInit \/ AddNetwork \/ ApConnected \/ DHCP_StartClient
  BY <1>2 DEF ModuleInit, StackInit, AddNetwork, ApConnected, DHCP_StartClient
<1>3. CASE Join \/ Synced \/ OcppInit \/ Online \/ ReportDown
  BY <1>3 DEF Join, Synced, OcppInit, Online, ReportDown
<1>4. CASE SntpRequest \/ ResolveServer
  BY <1>4 DEF SntpRequest, ResolveServer
<1>5. CASE Sync
  BY <1>5 DEF Sync
<1>6. CASE PingAnswered \/ PingLost \/ PingNotSent
  BY <1>6 DEF PingAnswered, PingLost, PingNotSent
<1>7. CASE LinkLost \/ LinkEstablished
  BY <1>7 DEF LinkLost, LinkEstablished, LinkStatusChangeCallback
<1>8. CASE TakeDown
  BY <1>8 DEF TakeDown
<1>9. CASE ErrorLoop \/ UNCHANGED vars
  BY <1>9 DEF ErrorLoop, vars, task
<1> QED
  BY <1>1, <1>2, <1>3, <1>4, <1>5, <1>6, <1>7, <1>8, <1>9 DEF Next, Task

\* The number of steps is bounded by the limits of the attempts and of the lost pings.
LEMMA ReportRange == IInv => ToReport \in 1 .. Restart + 1
<1> SUFFICES ASSUME IInv PROVE ToReport \in 1 .. Restart + 1
  OBVIOUS
<1>1. /\ SyncMax \in Nat /\ SyncMax > 0 /\ PingMaxFails \in Nat
      /\ fails \in 0 .. PingMaxFails /\ tries \in 0 .. SyncMax
  BY ConnectivityAssumption DEF IInv, TypeOK
<1>2. FromPing \in 3 .. 2 * PingMaxFails + 3 /\ Restart = 2 * PingMaxFails + SyncMax + 13
  BY <1>1 DEF FromPing, Restart
<1>3. FromSwitch \in 2 .. Restart
  BY <1>1, <1>2 DEF FromSwitch
<1> HIDE DEF FromPing, FromSwitch
<1>4. CASE at = "ping"
  BY <1>1, <1>2, <1>3, <1>4 DEF ToReport
<1>5. CASE at = "switch"
  BY <1>1, <1>2, <1>3, <1>5 DEF ToReport
<1>6. CASE at \in {"down", "online", "ocpp", "synced", "sync", "sntp"}
  <2>1. ToReport \in {1, 2 * PingMaxFails + 5, 2 * PingMaxFails + 6, 2 * PingMaxFails + 8,
                      2 * PingMaxFails + 9, Restart - 3}
    BY <1>6 DEF ToReport
  <2> QED
    BY <1>1, <1>2, <2>1
<1>7. CASE at = "dns"
  <2>1. ToReport = 2 * PingMaxFails + 9 + (SyncMax - tries)
    BY <1>7 DEF ToReport
  <2> QED
    BY <1>1, <1>2, <2>1
<1>8. CASE at \notin {"ping", "switch", "down", "online", "ocpp", "synced", "sync", "sntp", "dns"}
  <2>1. ToReport = Restart - 1
    BY <1>8 DEF ToReport
  <2> QED
    BY <1>1, <1>2, <2>1
<1> QED
  BY <1>4, <1>5, <1>6, <1>7, <1>8

\* In an outage a step of the task comes nearer to the report, or makes it.
LEMMA OutageStepCounts ==
  ASSUME IInv, StartIsOver, OutageStep
  PROVE  ToReport' < ToReport \/ (ReportDown /\ downRaised')
<1>1. /\ SyncMax \in Nat /\ SyncMax > 0 /\ PingMaxFails \in Nat
      /\ fails \in 0 .. PingMaxFails /\ tries \in 0 .. SyncMax
  BY ConnectivityAssumption DEF IInv, TypeOK
<1>2. /\ hasTime /\ ocppUp /\ ~link /\ at' # "error" /\ sendErrors' = sendErrors
      /\ at \notin {"module", "stack", "ap", "join", "joined"}
      /\ state \notin {"NotConnected", "InitComunicationModule", "InitCommunicationStack"}
  BY DEF OutageStep, IInv, TimeAhead, StartIsOver
<1> USE DEF ToReport, FromSwitch, FromPing, Restart, SetState, Goto, wifi, used
<1>3. CASE Dispatch
  <2>1. at = "switch" /\ at' = Cases[state] /\ UNCHANGED <<state, tries, fails>>
        /\ state \in {"APConnected", "DHCPRequest", "NetworkDisconnected",
                      "NetworkConnected", "OCPP_Init"}
    BY <1>2, <1>3, CaseNames DEF Dispatch, IInv, CaseAhead
  <2>2. CASE state = "APConnected" /\ at' = "dhcp"
    BY <1>1, <2>1, <2>2
  <2>3. CASE state = "DHCPRequest" /\ at' = "sntp"
    BY <1>1, <2>1, <2>3
  <2>4. CASE state = "NetworkDisconnected" /\ at' = "down"
    BY <1>1, <2>1, <2>4
  <2>5. CASE state = "NetworkConnected" /\ at' = "ping"
    BY <1>1, <2>1, <2>5
  <2>6. CASE state = "OCPP_Init" /\ at' = "ocpp"
    BY <1>1, <2>1, <2>6
  <2> QED
    BY <2>1, <2>2, <2>3, <2>4, <2>5, <2>6 DEF Cases
<1>4. CASE ModuleInit \/ StackInit \/ AddNetwork \/ ApConnected \/ Join
  BY <1>2, <1>4 DEF ModuleInit, StackInit, AddNetwork, ApConnected, Join
<1>5. CASE DHCP_StartClient
  BY <1>1, <1>5 DEF DHCP_StartClient
<1>6. CASE Synced \/ OcppInit \/ Online
  BY <1>1, <1>6 DEF Synced, OcppInit, Online
<1>7. CASE ReportDown
  BY <1>2, <1>7 DEF ReportDown
<1>8. CASE SntpRequest
  BY <1>1, <1>8 DEF SntpRequest
<1>9. CASE ResolveServer
  <2>1. tries < SyncMax
    BY <1>9 DEF ResolveServer, IInv, TriesLeft
  <2> QED
    BY <1>1, <1>9, <2>1 DEF ResolveServer
<1>10. CASE Sync
  <2>1. at = "sync" /\ at' = "synced"
    BY <1>2, <1>10 DEF Sync
  <2> QED
    BY <1>1, <2>1
<1>11. CASE PingLost
  <2>1. at = "ping" /\ at' = "switch"
    BY <1>11 DEF PingLost
  <2>2. CASE fails + 1 > PingMaxFails
    <3>1. state' = "NetworkDisconnected"
      BY <1>11, <2>2 DEF PingLost
    <3>2. ToReport' = 2 /\ ToReport > 2
      BY <1>1, <2>1, <3>1
    <3> QED
      BY <3>2
  <2>3. CASE ~(fails + 1 > PingMaxFails)
    <3>1. fails' = fails + 1 /\ state' = state
      BY <1>11, <2>3 DEF PingLost
    <3>2. CASE state = "NetworkConnected"
      BY <1>1, <2>1, <3>1, <3>2
    <3>3. CASE state # "NetworkConnected"
      BY <1>1, <2>1, <3>1, <3>3
    <3> QED
      BY <3>2, <3>3
  <2> QED
    BY <2>2, <2>3
<1>12. CASE PingAnswered \/ PingNotSent
  <2>1. ~PingAnswered
    BY <1>2, Zenon DEF PingAnswered
  <2>2. ~PingNotSent
    <3>1. sendErrors \in Nat
      BY ConnectivityAssumption DEF IInv, TypeOK
    <3>2. sendErrors' # sendErrors + 1
      BY <1>2, <3>1
    <3> QED
      BY <3>2, Zenon DEF PingNotSent
  <2> QED
    BY <1>12, <2>1, <2>2
<1> QED
  BY <1>3, <1>4, <1>5, <1>6, <1>7, <1>8, <1>9, <1>10, <1>11, <1>12 DEF OutageStep, Task

\* While the link stays lost, the connectivity task reports it to a running OCPP task
\* within 2 * PingMaxFails + SyncMax + 14 of its steps, counted from the last link event
\* and the last ping that could not be sent, or it is in an error loop by then
\* (EVSE_Connectivity_CheckNetwork, SNTP_Connection).
THEOREM OutageIsReportedInTime == Spec => ReportedInTime
<1>1. Init => StartIsOver
  BY DEF Init, StartIsOver
<1>2. IInv /\ StartIsOver => [OutageStep => ToReport' < ToReport \/ (ReportDown /\ downRaised')]_vars
  BY OutageStepCounts
<1> QED
  BY ConnectivityInvariant, StartStaysOver, ReportRange, <1>1, <1>2, PTL DEF Spec, ReportedInTime
=============================================================================
