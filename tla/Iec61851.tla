------------------------------ MODULE Iec61851 ------------------------------
(***************************************************************************)
(* The J1772 / IEC 61851 stack of the EVSE (charging_protocol/IEC61851.c)  *)
(* as operators on the value of its one static struct, j1772_simulation.   *)
(*                                                                         *)
(* Each C function that writes the struct is an operator from the struct   *)
(* to the struct, so that a function calling SetState twice in one pass    *)
(* (the C -> D -> D2 chain of Loop_EVSE) is their composition.  What the   *)
(* functions do outside the struct is kept in three more fields: the       *)
(* contactor and the fan the HAL was last told to set, and the OCPP event  *)
(* bits raised by the current pass (EVSE_OCPP_SetEvent).                   *)
(*                                                                         *)
(* Left out: energy and elapsed-time accounting, display timers, logging.  *)
(***************************************************************************)
EXTENDS Integers

CONSTANTS
  MaxCurrents,      \* the limits SetMaxCurrent may be called with (amperes)
  Loads,            \* the currents the meter may measure (amperes)
  HasVentilation,   \* s_hal_functions->ventilation_state != NULL
  OvercurrentTest   \* the build macro ENABLE_OVERCURRENT_TEST

ASSUME Iec61851Assumption ==
  /\ MaxCurrents \subseteq Nat
  /\ Loads \subseteq Nat
  /\ HasVentilation \in BOOLEAN
  /\ OvercurrentTest \in BOOLEAN

PWM100_MIN_VALUE == 980     \* per mil
PWM100_MAX_VALUE == 1000    \* per mil: the pilot is at a steady level
MIN_CURRENT_DRAW == 1       \* MIN_CURRENT_DRAW_BEFORE_DISCONNECT_SEQ7
DEFAULT_MAX_CURRENT == 25

\* ControlPilotState_t, what read_control_pilot returns.
CpStates == {"A", "B", "C", "D", "E", "F", "Unknown"}

\* j1772_state_t; "Last" is J1772_LAST_STATE, the state before the first reading.
States == {"A", "A2", "B", "B2", "C", "C2", "D", "D2", "E", "F", "Last"}

\* The OCPP events this stack raises.
J1772Events == {"EvConnected", "AuthNeeded", "EvDisconnected",
                "ChargingStarted", "ChargingStopped"}

\* What EVSE_OCPP_GetAuthResponse tells the stack when it is polled.
Answers == {"None", "Reject", "Accept"}

J1772Type ==
  [state       : States,
   cp          : CpStates,     \* last_cp_state, equal to cp_state between passes
   pwm         : Nat,          \* current_pwm in per mil, rounded down
   isCharging  : BOOLEAN,
   authNeeded  : BOOLEAN,
   ready       : BOOLEAN,      \* ready_to_charge
   overCurrent : BOOLEAN,      \* faults.over_current
   current     : Nat,          \* evse_data.fMeasuredCurrent
   maxCurrent  : Nat,
   contactor   : {"open", "closed"},
   fan         : BOOLEAN,
   raised      : SUBSET J1772Events]
-----------------------------------------------------------------------------
(* The duty cycle that advertises a current limit.                         *)

\* Mutant: the status code is taken for the duty cycle.
GetDutyCycleFromAmpsStatus(amps) ==
  IF amps \in 6 .. 81 THEN (amps * 50) \div 3 ELSE -1

(***************************************************************************)
(* EVSE_J1772_GetDutyCycleFromAmps, in per mil.  Outside 6..81 A the       *)
(* function fails; its callers ignore the status and use the 0 they        *)
(* initialised the result with.                                            *)
(***************************************************************************)
GetDutyCycleFromAmps(amps) ==
  CASE amps \in 6 .. 50  -> (amps * 50) \div 3
    [] amps \in 51 .. 81 -> 10 * ((2 * amps) \div 5 + 64)
    [] OTHER             -> 0
-----------------------------------------------------------------------------
(* The functions SetState is made of.                                      *)

StopCharging(j, stop) == [j EXCEPT !.ready = ~stop]

SetMaxCurrent(j, amps) == [j EXCEPT !.maxCurrent = amps]

Raise(j, events) == [j EXCEPT !.raised = @ \cup events]

DisablePower(j) ==
  [j EXCEPT !.contactor = "open", !.raised = @ \cup {"ChargingStopped"}]

EnablePower(j) ==
  [j EXCEPT !.contactor = "closed", !.raised = @ \cup {"ChargingStarted"}]

ResetVehicleData(j) == [j EXCEPT !.current = 0]

\* Entering A, or A2 on which A's case falls through.
EnterStandby(j, new) ==
  LET told == IF new = "A"
                THEN [Raise(j, {"EvDisconnected"}) EXCEPT !.authNeeded = FALSE]
                ELSE j
  IN  [DisablePower(ResetVehicleData(told)) EXCEPT
         !.isCharging = FALSE, !.overCurrent = FALSE, !.ready = TRUE]

\* Entering B: a newly arrived EV needs authorization, then B2's part follows.
EnterB(j) ==
  LET told == IF j.state \in {"A", "A2"}
                THEN [Raise(j, {"EvConnected", "AuthNeeded"}) EXCEPT
                        !.authNeeded = TRUE]
                ELSE j
  IN  StopCharging(DisablePower([told EXCEPT !.isCharging = FALSE]), FALSE)

\* Mutant: the charging flag is left set.
EnterB2StaleFlag(j) ==
  LET underLoad == j.state \in {"C2", "D2"} /\ j.current >= MIN_CURRENT_DRAW
  IN  StopCharging(IF underLoad THEN DisablePower(j) ELSE j, FALSE)

\* Entering B2: coming from C2 or D2 the contactor only opens under load.
EnterB2(j) ==
  LET idle      == [j EXCEPT !.isCharging = FALSE]
      underLoad == /\ j.state \in {"C2", "D2"}
                   /\ j.current >= MIN_CURRENT_DRAW
  IN  StopCharging(IF underLoad THEN DisablePower(idle) ELSE idle, FALSE)

\* Entering C or D: power goes off unless the step is between the two.
EnterCD(j, new) ==
  LET readied == IF new = "C" THEN StopCharging(j, FALSE) ELSE j
  IN  IF j.state \in {"C", "D"}
        THEN readied
        ELSE DisablePower([readied EXCEPT !.isCharging = FALSE])

\* Mutant: the fan is driven the wrong way round.
EnterCD2FanSwapped(j, new) ==
  LET vented == [j EXCEPT !.fan = (new = "C2")]
  IN  IF vented.ready
        THEN [EnablePower(vented) EXCEPT !.isCharging = TRUE]
        ELSE vented

\* Entering C2 or D2: power goes on if the stack is ready to charge.
EnterCD2(j, new) ==
  LET vented == IF HasVentilation
                  THEN [j EXCEPT !.fan = (new = "D2")]
                  ELSE IF new = "D2" THEN StopCharging(j, TRUE) ELSE j
  IN  IF vented.ready
        THEN [EnablePower(vented) EXCEPT !.isCharging = TRUE]
        ELSE vented

\* Entering E or F.
EnterFault(j) == [DisablePower(j) EXCEPT !.isCharging = FALSE]

SetState(j, new) ==
  IF new = j.state THEN j
  ELSE [(CASE new \in {"A", "A2"}   -> EnterStandby(j, new)
           [] new = "B"             -> EnterB(j)
           [] new = "B2"            -> EnterB2(j)
           [] new \in {"C", "D"}    -> EnterCD(j, new)
           [] new \in {"C2", "D2"}  -> EnterCD2(j, new)
           [] new \in {"E", "F"}    -> EnterFault(j)
           [] OTHER                 -> j)
         EXCEPT !.state = new]
-----------------------------------------------------------------------------
(***************************************************************************)
(* Loop_EVSE.  A pass has inputs: the pilot state read (cp), the answer a  *)
(* poll of the OCPP task would get, the load on the meter, whether the     *)
(* 100 ms measuring interval is over (due) and whether the 1 s over-       *)
(* current hold-off is over (expired).  Each handler returns the struct    *)
(* with the duty cycle this pass computed already stored in pwm: the code  *)
(* keeps it in a local until the end of the pass, so a handler tests the   *)
(* pwm of the struct it was given.                                         *)
(***************************************************************************)
Inputs == [cp : CpStates, answer : Answers, load : Loads,
           due : BOOLEAN, expired : BOOLEAN]

Steady(j)    == [j EXCEPT !.pwm = PWM100_MAX_VALUE]
Advertise(j) == [j EXCEPT !.pwm = GetDutyCycleFromAmps(j.maxCurrent)]

HandleA(j, in) ==
  CASE in.cp = "B" -> Steady(SetState(j, "B"))
    [] in.cp = "F" -> SetState(j, "F")
    [] OTHER       -> j

HandleA2(j, in) ==
  CASE in.cp = "A" -> IF j.pwm < PWM100_MIN_VALUE
                        THEN Steady(SetState(j, "A")) ELSE j
    [] in.cp = "B" -> SetState(j, "B2")
    [] in.cp = "F" -> SetState(j, "F")
    [] OTHER       -> j

\* The only place that polls for the answer to an authorization request.
PollsAuth(j, cp) == j.state = "B" /\ cp = "B" /\ j.authNeeded

\* Mutant: any answer counts as an acceptance.
AuthorizeAnyAnswer(j, in) ==
  IF ~j.authNeeded THEN j
  ELSE IF in.answer # "None" THEN [j EXCEPT !.ready = TRUE, !.authNeeded = FALSE]
  ELSE [j EXCEPT !.ready = FALSE]

Authorize(j, in) ==
  IF ~j.authNeeded THEN j
  ELSE IF in.answer = "Accept" THEN [j EXCEPT !.ready = TRUE, !.authNeeded = FALSE]
  ELSE [j EXCEPT !.ready = FALSE]

HandleB(j, in) ==
  LET a == Authorize(j, in)
  IN  CASE in.cp = "A" -> Steady(SetState(j, "A"))
        [] in.cp = "B" -> IF a.pwm = PWM100_MAX_VALUE
                            THEN IF a.ready THEN Advertise(SetState(a, "B2")) ELSE a
                            ELSE Steady(a)
        [] in.cp = "F" -> SetState(j, "F")
        [] OTHER       -> j

\* Mutants: the pilot keeps oscillating on the way to B, the session is left
\* without A2, and a pilot fault is not looked at.
HandleB2NoSteady(j, in) ==
  CASE in.cp = "A"             -> SetState(j, "A2")
    [] in.cp = "B" /\ ~j.ready -> SetState(j, "B")
    [] in.cp = "C"             -> SetState(j, "C2")
    [] in.cp = "D"             -> SetState(j, "D2")
    [] in.cp = "F"             -> SetState(j, "F")
    [] OTHER                   -> j

HandleB2NoFault(j, in) ==
  CASE in.cp = "A"             -> SetState(j, "A2")
    [] in.cp = "B" /\ ~j.ready -> Steady(SetState(j, "B"))
    [] in.cp = "C"             -> SetState(j, "C2")
    [] in.cp = "D"             -> SetState(j, "D2")
    [] OTHER                   -> j

HandleB2ToA(j, in) ==
  IF in.cp = "A" THEN Steady(SetState(j, "A")) ELSE HandleB2NoFault(j, in)

HandleB2(j, in) ==
  CASE in.cp = "A"             -> SetState(j, "A2")
    [] in.cp = "B" /\ ~j.ready -> Steady(SetState(j, "B"))
    [] in.cp = "C"             -> SetState(j, "C2")
    [] in.cp = "D"             -> SetState(j, "D2")
    [] in.cp = "F"             -> SetState(j, "F")
    [] OTHER                   -> j

\* cases STATE_C and STATE_D; C falls through into D.
HandleCD(j, in) ==
  LET moved == IF in.cp \in {"C", "D"} THEN SetState(j, in.cp) ELSE j
  IN  CASE in.cp = "B"          -> Steady(SetState(j, "B"))
        [] in.cp \in {"C", "D"} ->
             IF j.pwm # PWM100_MAX_VALUE THEN Steady(moved)
             ELSE IF moved.ready /\ ~moved.overCurrent
               THEN Advertise(SetState(moved, IF moved.state = "C" THEN "C2" ELSE "D2"))
               ELSE moved
        [] in.cp = "A"          -> SetState(j, "A")
        [] in.cp = "F"          -> SetState(j, "F")
        [] OTHER                -> j

\* The measuring block of C2/D2: due every 100 ms, and at once when the EV leaves.
Measure(j, in) ==
  IF in.due \/ in.cp \in {"A", "B"}
    THEN [j EXCEPT !.current = in.load,
                   !.overCurrent = @ \/ (OvercurrentTest /\ in.load > j.maxCurrent)]
    ELSE j

\* cases STATE_C2 and STATE_D2; C2 falls through into D2.
HandleCD2(j, in) ==
  LET vented == IF j.state = "C2" /\ in.cp = "D" THEN SetState(j, "D2") ELSE j
      on     == Advertise(Measure(vented, in))
      moved  == IF in.cp = "C" /\ j.cp = "D" THEN SetState(on, "C2") ELSE on
  IN  CASE in.cp = "A"          -> SetState(on, "A2")
        [] in.cp = "B"          -> SetState(on, "B2")
        [] in.cp \in {"C", "D"} ->
             IF ~moved.ready \/ moved.overCurrent
               THEN Steady(SetState(moved, IF moved.state = "C2" THEN "C" ELSE "D"))
               ELSE moved
        [] in.cp = "F"          -> SetState(on, "F")
        [] OTHER                -> on

\* Mutant: a fault state is never left.
HandleEFStuck(j, in) == Steady(IF in.cp = "F" THEN SetState(j, "F") ELSE j)

HandleEF(j, in) ==
  Steady(IF in.cp = "A" THEN SetState(j, "A")
         ELSE IF in.cp = "F" THEN SetState(j, "F") ELSE j)

HandleLast(j, in) == IF in.cp # "Unknown" THEN SetState(j, "A") ELSE j

\* One pass of EVSE_J1772_Loop_EVSE.
LoopEvse(j0, in) ==
  LET j == [j0 EXCEPT !.raised = {}, !.overCurrent = @ /\ ~in.expired]
  IN  [(CASE j.state = "A"           -> HandleA(j, in)
          [] j.state = "A2"          -> HandleA2(j, in)
          [] j.state = "B"           -> HandleB(j, in)
          [] j.state = "B2"          -> HandleB2(j, in)
          [] j.state \in {"C", "D"}  -> HandleCD(j, in)
          [] j.state \in {"C2", "D2"}-> HandleCD2(j, in)
          [] j.state \in {"E", "F"}  -> HandleEF(j, in)
          [] OTHER                   -> HandleLast(j, in))
        EXCEPT !.cp = in.cp]

(***************************************************************************)
(* The struct after EVSE_J1772_Init: static zeroes, then the assignments.  *)
(* The contactor variable of the HAL starts open.                          *)
(***************************************************************************)
InitStruct ==
  [state |-> "Last", cp |-> "A", pwm |-> PWM100_MAX_VALUE, isCharging |-> FALSE,
   authNeeded |-> FALSE, ready |-> TRUE, overCurrent |-> FALSE, current |-> 0,
   maxCurrent |-> DEFAULT_MAX_CURRENT, contactor |-> "open", fan |-> FALSE,
   raised |-> {}]
-----------------------------------------------------------------------------
(***************************************************************************)
(* What the state of the struct says, at the end of every pass, of the     *)
(* contactor, the pilot, the report and the fan, and of the session: p     *)
(* tells that EvConnected was raised more recently than EvDisconnected, g  *)
(* that an answer "Accept" was consumed since.                             *)
(***************************************************************************)
SessionOfState(r, p, g) ==
  /\ r.state \in {"A", "Last"} => ~p /\ ~g
  /\ r.state \in {"A2", "B2", "C", "C2", "D", "D2"} => p /\ g
  /\ r.state = "B" => p /\ (r.authNeeded \/ g)
  /\ r.authNeeded => ~g
StateInv(r, p, g) ==
  /\ SessionOfState(r, p, g)
  /\ r.contactor = "closed" => r.state \in {"B2", "C2", "D2"}
  /\ r.state \in {"A", "B", "C", "D", "Last"} => r.pwm = PWM100_MAX_VALUE
  /\ r.state \in {"A2", "B2", "C2", "D2"} => r.pwm < PWM100_MIN_VALUE
  /\ r.isCharging => r.contactor = "closed" /\ r.state \in {"C2", "D2"}
  /\ r.contactor = "closed" /\ ~r.isCharging => r.state = "B2" \/ ~r.ready
  /\ HasVentilation /\ r.state = "D2" => r.fan
=============================================================================
