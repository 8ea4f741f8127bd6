-------------------------------- MODULE J1772 -------------------------------
(***************************************************************************)
(* The charging task (EVSE_ChargingProtocol.c) running the J1772 stack:    *)
(* Init, then for ever a pass of the loop and a wait of up to 2 ms for a   *)
(* request.  The rest of the station is the environment: the EV moves the  *)
(* pilot line and the load, the back end answers the authorization         *)
(* request, and other tasks ask for a stop or a new current limit.  Tasks  *)
(* of lower priority run only while this one waits, on one core, so a pass *)
(* is one step.                                                            *)
(***************************************************************************)
EXTENDS Iec61851

VARIABLES
  j,         \* the struct of the stack
  pc,        \* where the task is: in its loop at the "pass" or at the "wait"
  requests,  \* event bits other tasks set for the task
  line,      \* what read_control_pilot would return now
  load,      \* what the meter would measure now
  answer,    \* what a poll of the OCPP task would return now
  plugged,   \* history: EvConnected was raised more recently than EvDisconnected
  granted,   \* history: an answer "Accept" was consumed since EvDisconnected
  stopped    \* history: a stop was asked for while charging, and the EV has
             \* kept asking for energy ever since

task    == <<j, pc, requests>>
outside == <<line, load, answer>>
history == <<plugged, granted, stopped>>
vars    == <<task, outside, history>>

Requests == {"RefreshData", "StopCharging", "SuspendCharging"}
PCs      == {"pass", "wait"}

TypeOK ==
  /\ j \in J1772Type
  /\ pc \in PCs
  /\ requests \in SUBSET Requests
  /\ line \in CpStates
  /\ load \in Loads
  /\ answer \in Answers
  /\ plugged \in BOOLEAN /\ granted \in BOOLEAN /\ stopped \in BOOLEAN
-----------------------------------------------------------------------------
(* The task.                                                               *)

\* The task after EVSE_J1772_Init; the low level handlers are always ready.
Init ==
  /\ j = InitStruct
  /\ pc = "pass"
  /\ requests = {}
  /\ line \in CpStates /\ load \in Loads /\ answer = "None"
  /\ plugged = FALSE /\ granted = FALSE /\ stopped = FALSE

\* One pass of EVSE_J1772_Loop.  An answer that is polled is used up.
Pass ==
  /\ pc = "pass"
  /\ \E due, expired \in BOOLEAN :
       j' = LoopEvse(j, [cp |-> line, answer |-> answer, load |-> load,
                         due |-> due, expired |-> expired])
  /\ pc' = "wait"
  /\ answer' = IF PollsAuth(j, line) THEN "None" ELSE answer
  /\ plugged' = /\ "EvDisconnected" \notin j'.raised
                /\ plugged \/ "EvConnected" \in j'.raised
  /\ granted' = /\ "EvDisconnected" \notin j'.raised
                /\ granted \/ (PollsAuth(j, line) /\ answer = "Accept")
  /\ stopped' = (stopped /\ line \in {"C", "D"})
  /\ UNCHANGED <<requests, line, load>>

\* EVSE_ChargingProtocol_StopCharging, from whichever task calls it.
Stop ==
  /\ j' = StopCharging(j, TRUE)
  /\ stopped' = (stopped \/ j.isCharging)

\* EVSE_ChargingWaitEvent: times out, or takes all the bits and serves them.
WaitEvent ==
  /\ pc = "wait"
  /\ IF "StopCharging" \in requests THEN Stop ELSE UNCHANGED <<j, stopped>>
  /\ requests' = {}
  /\ pc' = "pass"
  /\ UNCHANGED <<outside, plugged, granted>>
-----------------------------------------------------------------------------
(* Other tasks.                                                            *)

\* EVSE_ChargingProtocol_SetEvent
SetEvent(r) ==
  /\ pc = "wait"
  /\ r \notin requests
  /\ requests' = requests \cup {r}
  /\ UNCHANGED <<j, pc, outside, history>>

\* The OCPP task stops the session on behalf of the CSMS by a direct call.
RemoteStop ==
  /\ pc = "wait"
  /\ Stop
  /\ UNCHANGED <<pc, requests, outside, plugged, granted>>

\* EVSE_ChargingProtocol_SetMaxCurrent
ChangeMaxCurrent(amps) ==
  /\ pc = "wait"
  /\ amps # j.maxCurrent
  /\ j' = SetMaxCurrent(j, amps)
  /\ UNCHANGED <<pc, requests, outside, history>>
-----------------------------------------------------------------------------
(* The EV and the back end.                                                *)

MovePilot(s) == line' = s /\ UNCHANGED <<task, load, answer, history>>
DrawLoad(l)  == load' = l /\ UNCHANGED <<task, line, answer, history>>

Reply(a) ==
  /\ answer = "None"
  /\ answer' = a
  /\ UNCHANGED <<task, line, load, history>>

Next ==
  \/ Pass
  \/ WaitEvent
  \/ \E r \in Requests : SetEvent(r)
  \/ RemoteStop
  \/ \E amps \in MaxCurrents : ChangeMaxCurrent(amps)
  \/ \E s \in CpStates : MovePilot(s)
  \/ \E l \in Loads : DrawLoad(l)
  \/ \E a \in Answers \ {"None"} : Reply(a)

\* The scheduler runs the task: its wait is bounded by a timeout.
Spec     == Init /\ [][Next]_vars
FairSpec == Spec /\ WF_vars(Pass) /\ WF_vars(WaitEvent)
-----------------------------------------------------------------------------
(* Properties.                                                             *)

PowerOn == j.contactor = "closed"

\* The contactor is closed only for an EV whose session the back end accepted,
\* with the oscillator on, in a state that may supply it: C2, D2, or B2 in which
\* SetState leaves it closed when the EV stopped drawing current.
PowerOnlyWhenGranted ==
  PowerOn => /\ j.state \in {"B2", "C2", "D2"}
             /\ plugged /\ granted /\ ~j.authNeeded

\* The pilot shows what the state says: a steady level in A, B, C and D, the
\* oscillator in A2, B2, C2 and D2 (so A2 is always left when the EV is gone, and
\* the branches of Loop_EVSE that repair the duty cycle of B, C and D are dead).
PilotMatchesState ==
  /\ j.state \in {"A", "B", "C", "D", "Last"} => j.pwm = PWM100_MAX_VALUE
  /\ j.state \in {"A2", "B2", "C2", "D2"} => j.pwm < PWM100_MIN_VALUE

\* What EVSE_J1772_isCharging reports: never charging with the contactor open,
\* and a closed contactor that is not reported is either B2's low-current case
\* or a stop that reached C2/D2 before the power came on.
ReportMatchesPower ==
  /\ j.isCharging => PowerOn /\ j.state \in {"C2", "D2"}
  /\ PowerOn /\ ~j.isCharging => j.state = "B2" \/ ~j.ready

\* With a fan fitted, energy at a pilot that asks for ventilation comes with it.
VentilatedPower == HasVentilation /\ PowerOn /\ j.state = "D2" => j.fan

\* The inductive invariant: the type, and what the state says of the rest of the struct
\* and of the session.
IInv == TypeOK /\ StateInv(j, plugged, granted)

\* An EV that has left, or a pilot fault that stays, ends in the matching state
\* with the power off, whatever the stack was doing.
UnpluggedSettles == <>[](line = "A") => <>[](j.state = "A" /\ ~PowerOn)
FaultCutsPower   == <>[](line = "F") => <>[](j.state = "F" /\ ~PowerOn)

\* The stack implements the abstract session.
Session == INSTANCE EvSession WITH power <- PowerOn
SessionSpec == Session!Spec

\* IEC61851.h: a stop from outside the stack stops the charging session.
StopHolds ==
  [][stopped /\ stopped' /\ ~PowerOn => ~PowerOn']_vars
=============================================================================
