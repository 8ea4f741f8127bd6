---------------------------- MODULE ControlPilot ----------------------------
(***************************************************************************)
(* The control pilot: the PWM that the charging task puts on the line, the *)
(* interrupt that samples the line once in every cycle of it               *)
(* (ControlPilot_Process.c), and the classification and debounce between a *)
(* sample and the pilot state that the stack reads                         *)
(* (EVSE_LowLevel_Handles.c).                                              *)
(*                                                                         *)
(* A cycle of the timer counts from 0 to Period.  The line is low, at      *)
(* -12 V, until the count reaches the pulse width and then at the voltage  *)
(* that tells the state of the EV, so a sample says something about the EV *)
(* only if its trigger lies in the high part.  The task moves the two      *)
(* match values one after the other while the timer runs.                  *)
(*                                                                         *)
(* Codes are what the converter delivers, duty cycles are per mil.         *)
(***************************************************************************)
EXTENDS Integers

CONSTANTS
  Period,       \* s_u32PWMPeriod: one less than the clock over CP_PWM_FREQ
  Duties,       \* the duty cycles that the stack asks for
  Codes,        \* the codes that the line may have in the high part
  LowCode       \* the code of the low part

DefaultDuty == 1000     \* CP_PWM_DEFAULT_DUTYCYCLE

Below(n) == {v \in Nat : v < n}
Uint16   == Below(65536)
PerMil   == Below(1001)

ASSUME ControlPilotAssumption ==
  /\ Period \in Nat \ {0}
  /\ Duties \subseteq PerMil
  /\ Codes \subseteq Uint16 /\ LowCode \in Uint16

VARIABLES
  line,       \* the code of the voltage that the EV and the station make
  duty,       \* s_fCPDutyCycle
  pulse,      \* s_u32PulseWidth, the match value of the output
  trigger,    \* the match value that triggers the converter
  shown,      \* the match values that the output may follow in this cycle
  task,       \* "idle", or "update" between the two match values
  raw,        \* s_u16AdcCPRawValue
  returned,   \* latest_state_returned
  count,      \* consecutive_same_state_returned
  lastRead,   \* history: what the last reading was classified as
  validRun    \* history: valid readings since one that was not, up to three

pwm == <<duty, pulse, trigger, task>>
debounce == <<returned, count, lastRead, validRun>>
vars == <<line, pwm, shown, raw, debounce>>
-----------------------------------------------------------------------------
(* The PWM.                                                                *)

\* CTIMER_CalculatePWMPulseWidth: how long the line is low.
PulseWidth(d) == ((Period + 1) * (1000 - d)) \div 1000

\* Mutant: the trigger is put into the middle of the low part.
TriggerPointLow(p) == IF p = 0 \/ p = Period + 1 THEN Period \div 2 ELSE p \div 2
\* CTIMER_CalculateADCTriggerPoint: the middle of the high part, or anywhere.
TriggerPoint(p) ==
  LET from == IF p = 0 \/ p = Period + 1 THEN Period \div 2 ELSE p
  IN  from + (Period - from) \div 2
-----------------------------------------------------------------------------
(* From a sample to a pilot state.                                         *)

\* What the interrupt stores, in 16 bits: the sum wraps around once at most.
RawValue(code) ==
  LET sum == (code % 32768) * 2 + 1200
  IN  IF sum < 65536 THEN sum ELSE sum - 65536

\* cp_value / SCALING_FACTOR, with 1.8 V as reference and 1.6 V as maximum.
Scaled(value) == (value * 9) \div 8

\* The levels between the limits of EVSE_LowLevel_Handles.h, which are exclusive.
CpStates == {"A", "B", "C", "D", "E", "F"}
MinLevel == [A |-> 60000, B |-> 54000, C |-> 47000, D |-> 43000, E |-> 30000, F |-> 25000]
MaxLevel == [A |-> 62000, B |-> 56000, C |-> 49000, D |-> 45000, E |-> 32000, F |-> 29000]
InBand(level, s) == MinLevel[s] < level /\ level < MaxLevel[s]
Classify(value) ==
  LET level == Scaled(value)
  IN  IF \E s \in CpStates : InBand(level, s)
        THEN CHOOSE s \in CpStates : InBand(level, s)
        ELSE "Unknown"

StateOf(code) == Classify(RawValue(code))
SuccessiveSameState == 2        \* CP_SUCCESIVE_SAME_STATE

TypeOK ==
  /\ line \in Codes
  /\ duty \in PerMil
  /\ pulse \in 0 .. Period + 1 /\ trigger \in 0 .. Period
  /\ shown \subseteq 0 .. Period + 1
  /\ task \in {"idle", "update"}
  /\ raw \in Uint16
  /\ returned \in CpStates \cup {"Unknown"} /\ lastRead \in CpStates \cup {"Unknown"}
  /\ count \in 0 .. SuccessiveSameState
  /\ validRun \in 0 .. 3

\* EVSE_LL_Init.  The PWM starts with the default duty cycle, which s_fCPDutyCycle
\* does not know of.
Init ==
  /\ line \in Codes
  /\ duty = 0
  /\ pulse = PulseWidth(DefaultDuty)
  /\ trigger = TriggerPoint(pulse)
  /\ shown = {pulse}
  /\ task = "idle"
  /\ raw = 0
  /\ returned = "Unknown" /\ count = 0
  /\ lastRead = "Unknown" /\ validRun = 0
-----------------------------------------------------------------------------
\* The EV, or its cable, changes the voltage of the high part.
MoveLine ==
  /\ line' \in Codes \ {line}
  /\ UNCHANGED <<pwm, shown, raw, debounce>>

\* ControlPilot_UpdatePWM moves the match value of the output; the same duty cycle
\* again is not looked at.
UpdatePWM(d) ==
  /\ task = "idle"
  /\ d # duty
  /\ duty' = d
  /\ pulse' = PulseWidth(d)
  /\ shown' = shown \cup {pulse'}
  /\ task' = "update"
  /\ UNCHANGED <<line, trigger, raw, debounce>>

\* Mutant: the trigger is left where it was.
UpdateADCTriggerPeriodNever ==
  /\ task = "update"
  /\ task' = "idle"
  /\ UNCHANGED <<line, duty, pulse, trigger, shown, raw, debounce>>
\* ADC_Manager_UpdateADCTriggerPeriod moves the trigger after it.
UpdateADCTriggerPeriod ==
  /\ task = "update"
  /\ trigger' = TriggerPoint(pulse)
  /\ task' = "idle"
  /\ UNCHANGED <<line, duty, pulse, shown, raw, debounce>>

\* The timer reaches the trigger, the conversion ends and its interrupt stores the
\* value.  A match value that was moved within the cycle takes effect at once or in
\* the next one.
Sample ==
  /\ \E p \in shown : raw' = RawValue(IF trigger >= p THEN line ELSE LowCode)
  /\ shown' = {pulse}
  /\ UNCHANGED <<line, pwm, debounce>>

\* Mutants: a level out of all bands counts like any other; the count goes on past
\* its limit.
CountUnknown(state) == IF count < SuccessiveSameState THEN count + 1 ELSE count
CountOn(state) == IF state = "Unknown" THEN 0 ELSE count + 1
\* consecutive_same_state_returned after a reading.  The comparison with the state
\* detected before is with the variable just assigned, and always true.
Count(state) ==
  IF state = "Unknown" THEN 0
  ELSE IF count = SuccessiveSameState THEN count ELSE count + 1

\* EVSE_LL_ReadControlPilot, in a pass of the charging task.
ReadControlPilot ==
  LET state == Classify(raw)
  IN  /\ task = "idle"
      /\ count' = Count(state)
      /\ returned' = IF state # "Unknown" /\ count = SuccessiveSameState
                       THEN state ELSE returned
      /\ lastRead' = state
      /\ validRun' = IF state = "Unknown" THEN 0
                     ELSE IF validRun < 3 THEN validRun + 1 ELSE validRun
      /\ UNCHANGED <<line, pwm, shown, raw>>

Next ==
  \/ MoveLine
  \/ \E d \in Duties : UpdatePWM(d)
  \/ UpdateADCTriggerPeriod
  \/ Sample
  \/ ReadControlPilot
Spec == Init /\ [][Next]_vars

\* The timer never stops (nothing disables the PWM), the charging task passes again
\* and again, and it does not stop between the two match values.
FairSpec ==
  Spec /\ WF_vars(Sample) /\ WF_vars(ReadControlPilot) /\ WF_vars(UpdateADCTriggerPeriod)
-----------------------------------------------------------------------------
(* Properties.                                                             *)

\* Between two updates the sample is taken in the high part of the cycle, for every
\* duty cycle that has one: otherwise the -12 V of the low part, which is the level
\* of state F, would be read as a fault of the EV.
SamplesHighPart ==
  task = "idle" /\ pulse <= Period => trigger >= pulse

\* The stack is told another state only by the third valid reading in a row or a later
\* one, and from the third on it is told the last: a level between the bands, however
\* short, holds the last state back for two more readings.
ToldAfterThree ==
  /\ [](validRun = 3 => returned = lastRead)
  /\ [][returned' # returned => validRun' = 3]_vars

\* A line that settles, under a duty cycle that has a high part, is what the stack is
\* told in the end: neither an update of the PWM nor a level between the bands nor a
\* sample of the low part leaves it with another state for good.
LineIsFollowed ==
  \A c \in Codes :
    /\ StateOf(c) # "Unknown"
    /\ <>[](line = c /\ task = "idle" /\ pulse <= Period)
    => <>[](returned = StateOf(c))
=============================================================================
