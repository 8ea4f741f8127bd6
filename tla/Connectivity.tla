---------------------------- MODULE Connectivity ----------------------------
(***************************************************************************)
(* The connectivity task (EVSE_Connectivity.c): a state machine from the   *)
(* WiFi module to the start of OCPP and then a ping every second.  The     *)
(* state is one static that the task and the callback of the WiFi layer    *)
(* both write: the task reads it in its switch, works for a while, and     *)
(* overwrites what the callback wrote meanwhile.                           *)
(*                                                                         *)
(* Build: ENABLE_WIFI, ENABLE_OCPP, no EdgeLock agent, no display.         *)
(***************************************************************************)
EXTENDS Integers

CONSTANTS
  SyncMax,         \* EVSE_SNTP_SYNC_MAX, 9 in the code
  PingMaxFails,    \* PING_MAX_FAILS, 4 in the code
  MaxLinkEvents,   \* bound: events of the WiFi layer after the first association
  MaxSendErrors    \* bound: pings that could not be sent for lack of memory

ASSUME ConnectivityAssumption ==
  /\ SyncMax \in Nat \ {0} /\ PingMaxFails \in Nat
  /\ MaxLinkEvents \in Nat /\ MaxSendErrors \in Nat

VARIABLES
  state,      \* s_connectionState
  at,         \* where the task is: its switch, or in one of the functions it calls
  tries,      \* sntp_tries
  fails,      \* ping_fails
  hasTime,    \* s_unixTimeBase # 0
  ocppUp,     \* EVSE_OCPP_Init was called
  downRaised, \* the network-down bit of the OCPP task
  joined,     \* s_wplStaConnected: the WiFi layer reports link changes
  link,       \* the station is associated with the access point
  linkEvents, sendErrors   \* how much of each bound was used

task == <<state, at, tries, fails, hasTime, ocppUp, downRaised>>
wifi == <<joined, link>>
used == <<linkEvents, sendErrors>>
vars == <<task, wifi, used>>

\* The cases of the switch and where each one leads; any other state is an error.
Cases ==
  [NotConnected |-> "module", InitComunicationModule |-> "stack",
   InitCommunicationStack |-> "ap", APConnected |-> "dhcp", DHCPRequest |-> "sntp",
   NetworkDisconnected |-> "down", NetworkConnected |-> "ping", OCPP_Init |-> "ocpp"]

ConnectionStates ==
  DOMAIN Cases \cup {"InitComunicationModuleError", "InitCommunicationStackError",
                     "APConnectTry", "APConnectError", "SNTPRequest", "SNTPError"}
Places ==
  {"switch", "module", "stack", "ap", "join", "joined", "dhcp", "sntp", "dns", "sync",
   "synced", "ocpp", "online", "down", "ping", "error"}

TypeOK ==
  /\ state \in ConnectionStates /\ at \in Places
  /\ tries \in 0 .. SyncMax /\ fails \in 0 .. PingMaxFails
  /\ hasTime \in BOOLEAN /\ ocppUp \in BOOLEAN /\ downRaised \in BOOLEAN
  /\ joined \in BOOLEAN /\ link \in BOOLEAN
  /\ linkEvents \in 0 .. MaxLinkEvents /\ sendErrors \in 0 .. MaxSendErrors

Init ==
  /\ state = "NotConnected" /\ at = "switch" /\ tries = 0 /\ fails = 0
  /\ hasTime = FALSE /\ ocppUp = FALSE /\ downRaised = FALSE
  /\ joined = FALSE /\ link = FALSE /\ linkEvents = 0 /\ sendErrors = 0

\* prvConnectivity_SetState; the address for display that a disconnection clears is
\* left out.
SetState(s) == state' = s

Goto(from, to) == at = from /\ at' = to
-----------------------------------------------------------------------------
(* The task.                                                               *)

\* The switch; a state without a case is read again at once.
Dispatch ==
  /\ at = "switch"
  /\ at' = IF state \in DOMAIN Cases THEN Cases[state] ELSE "switch"
  /\ UNCHANGED <<state, tries, fails, hasTime, ocppUp, downRaised, wifi, used>>

\* ConnectivityModule_Init, ConnectivityStack_Init: an error is final.
ModuleInit ==
  /\ \/ Goto("module", "switch") /\ SetState("InitComunicationModule")
     \/ Goto("module", "error") /\ SetState("InitComunicationModuleError")
  /\ UNCHANGED <<tries, fails, hasTime, ocppUp, downRaised, wifi, used>>

StackInit ==
  /\ \/ Goto("stack", "switch") /\ SetState("InitCommunicationStack")
     \/ Goto("stack", "error") /\ SetState("InitCommunicationStackError")
  /\ UNCHANGED <<tries, fails, hasTime, ocppUp, downRaised, wifi, used>>

\* ConnectivityAP_Connect: add the network, join until it works, then DHCP.
AddNetwork ==
  /\ \/ Goto("ap", "join") /\ SetState("APConnectTry")
     \/ Goto("ap", "error") /\ SetState("APConnectError")
  /\ UNCHANGED <<tries, fails, hasTime, ocppUp, downRaised, wifi, used>>

Join ==
  /\ \/ /\ Goto("join", "joined")
        /\ joined' = TRUE /\ link' = TRUE
        /\ UNCHANGED state
     \/ Goto("join", "join") /\ SetState("APConnectError") /\ UNCHANGED wifi
  /\ UNCHANGED <<tries, fails, hasTime, ocppUp, downRaised, used>>

ApConnected ==
  /\ Goto("joined", "dhcp") /\ SetState("APConnected")
  /\ UNCHANGED <<tries, fails, hasTime, ocppUp, downRaised, wifi, used>>

\* DHCP_StartClient: no address is not an error.
DHCP_StartClient ==
  /\ Goto("dhcp", "switch") /\ SetState("DHCPRequest")
  /\ UNCHANGED <<tries, fails, hasTime, ocppUp, downRaised, wifi, used>>

\* SNTP_Connection: resolve the server, synchronize, give up for good after SyncMax.
SntpRequest ==
  /\ Goto("sntp", "dns") /\ SetState("SNTPRequest")
  /\ tries' = 0
  /\ UNCHANGED <<fails, hasTime, ocppUp, downRaised, wifi, used>>

ResolveServer ==
  /\ \/ Goto("dns", "sync") /\ tries' = 0
     \/ Goto("dns", IF tries + 1 < SyncMax THEN "dns" ELSE "sync") /\ tries' = tries + 1
  /\ UNCHANGED <<state, fails, hasTime, ocppUp, downRaised, wifi, used>>

\* Mutant: a synchronization that failed SyncMax times is taken for a success.
SyncUnchecked ==
  /\ \/ Goto("sync", "synced") /\ hasTime' \in {hasTime, TRUE} /\ tries' = 0
     \/ Goto("sync", "sync") /\ tries < SyncMax /\ tries' = tries + 1 /\ UNCHANGED hasTime
  /\ UNCHANGED <<state, fails, ocppUp, downRaised, wifi, used>>

Sync ==
  /\ \/ Goto("sync", "synced") /\ tries < SyncMax /\ tries' = 0
        /\ hasTime' = TRUE /\ UNCHANGED state
     \/ Goto("sync", "sync") /\ tries < SyncMax /\ ~hasTime /\ tries' = tries + 1
        /\ UNCHANGED <<state, hasTime>>
     \/ Goto("sync", "error") /\ tries = SyncMax /\ SetState("SNTPError")
        /\ UNCHANGED <<tries, hasTime>>
  /\ UNCHANGED <<fails, ocppUp, downRaised, wifi, used>>

\* Mutant: the state after the synchronization is not set.
SyncedSilently ==
  /\ Goto("synced", "switch")
  /\ UNCHANGED <<state, tries, fails, hasTime, ocppUp, downRaised, wifi, used>>

Synced ==
  /\ Goto("synced", "switch") /\ SetState("OCPP_Init")
  /\ UNCHANGED <<tries, fails, hasTime, ocppUp, downRaised, wifi, used>>

\* The case OCPP_Init: the start of the OCPP task, then the state.
OcppInit ==
  /\ Goto("ocpp", "online")
  /\ ocppUp' = TRUE
  /\ UNCHANGED <<state, tries, fails, hasTime, downRaised, wifi, used>>

Online ==
  /\ Goto("online", "switch") /\ SetState("NetworkConnected")
  /\ UNCHANGED <<tries, fails, hasTime, ocppUp, downRaised, wifi, used>>

\* The case NetworkDisconnected, which falls through to the ping.
ReportDown ==
  /\ Goto("down", "ping")
  /\ downRaised' = (downRaised \/ ocppUp)
  /\ UNCHANGED <<state, tries, fails, hasTime, ocppUp, wifi, used>>

\* EVSE_Connectivity_CheckNetwork
PingAnswered ==
  /\ Goto("ping", "switch") /\ link
  /\ fails' = 0
  /\ IF state = "NetworkDisconnected" THEN SetState("APConnected") ELSE UNCHANGED state
  /\ UNCHANGED <<tries, hasTime, ocppUp, downRaised, wifi, used>>

\* Mutants: the limit is missed by one; the count starts anew with every failure.
PingLostOffByOne ==
  /\ Goto("ping", "switch")
  /\ IF fails > PingMaxFails THEN fails' = 0 /\ SetState("NetworkDisconnected")
                             ELSE fails' = fails + 1 /\ UNCHANGED state
  /\ UNCHANGED <<tries, hasTime, ocppUp, downRaised, wifi, used>>

PingLostUncounted ==
  /\ Goto("ping", "switch")
  /\ fails' = 0
  /\ UNCHANGED <<state, tries, hasTime, ocppUp, downRaised, wifi, used>>

PingLost ==
  /\ Goto("ping", "switch")
  /\ IF fails + 1 > PingMaxFails
       THEN fails' = 0 /\ SetState("NetworkDisconnected")
       ELSE fails' = fails + 1 /\ UNCHANGED state
  /\ UNCHANGED <<tries, hasTime, ocppUp, downRaised, wifi, used>>

PingNotSent ==
  /\ Goto("ping", "switch")
  /\ sendErrors < MaxSendErrors /\ sendErrors' = sendErrors + 1
  /\ UNCHANGED <<state, tries, fails, hasTime, ocppUp, downRaised, wifi, linkEvents>>
-----------------------------------------------------------------------------
(* The WiFi layer and the OCPP task.                                       *)

\* LinkStatusChangeCallback: its parameter is named link_lost, but the WiFi layer
\* passes the state of the link, TRUE for established.
LinkStatusChangeCallback(link_lost) ==
  IF link_lost THEN SetState("NetworkDisconnected") ELSE SetState("APConnected")

\* wlan_event_callback: LINK_LOST or a failed attempt to come back, and SUCCESS.
LinkLost ==
  /\ joined /\ linkEvents < MaxLinkEvents /\ linkEvents' = linkEvents + 1
  /\ link' = FALSE
  /\ LinkStatusChangeCallback(FALSE)
  /\ UNCHANGED <<at, tries, fails, hasTime, ocppUp, downRaised, joined, sendErrors>>

LinkEstablished ==
  /\ joined /\ ~link /\ linkEvents < MaxLinkEvents /\ linkEvents' = linkEvents + 1
  /\ link' = TRUE
  /\ LinkStatusChangeCallback(TRUE)
  /\ UNCHANGED <<at, tries, fails, hasTime, ocppUp, downRaised, joined, sendErrors>>

\* The OCPP task takes its bits.
TakeDown ==
  /\ downRaised /\ downRaised' = FALSE
  /\ UNCHANGED <<state, at, tries, fails, hasTime, ocppUp, wifi, used>>

\* ERROR_LOOP: the task stays where it is.
ErrorLoop == at = "error" /\ UNCHANGED vars

Task ==
  \/ Dispatch \/ ModuleInit \/ StackInit \/ AddNetwork \/ Join \/ ApConnected
  \/ DHCP_StartClient \/ SntpRequest \/ ResolveServer \/ Sync \/ Synced \/ OcppInit
  \/ Online \/ ReportDown \/ PingAnswered \/ PingLost \/ PingNotSent

Next == Task \/ LinkLost \/ LinkEstablished \/ TakeDown \/ ErrorLoop

Spec == Init /\ [][Next]_vars

\* The task is scheduled.  Whether a ping is answered is left open.
FairSpec == Spec /\ WF_vars(Task)
-----------------------------------------------------------------------------
(* Properties.                                                             *)

\* Whatever the callback writes between two steps of the task, the switch never meets
\* a state without a case: there the task, which outranks OCPP, would spin for ever
\* without a delay.
NoErrorState == at = "switch" => state \in DOMAIN Cases

\* OCPP, whose messages carry the time, is not started before the time is known, on
\* whichever path of losses and returns the task got there.
OcppHasTime == ocppUp => hasTime

\* A loss of the link that lasts is reported to a running OCPP task again and again, even
\* where the connectivity task has overwritten what the callback told it: the pings find out, unless
\* the task is in an error loop by then.
OutageIsReported ==
  <>[](ocppUp /\ ~link) => []<>downRaised \/ <>[](at = "error")

\* EVSE_Connectivity.c prints "LINK LOST" where it takes the network for disconnected
\* and wpl.h calls the callback to tell that the link "is lost or re/established".
LossDisconnects == [][link /\ ~link' => state' = "NetworkDisconnected"]_vars
=============================================================================
