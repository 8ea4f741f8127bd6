------------------------- MODULE ControlPilot_proofs -------------------------
(***************************************************************************)
(* Proofs about ControlPilot, for every timer period, every set of duty    *)
(* cycles and every set of codes that the line may have.                   *)
(***************************************************************************)
EXTENDS ControlPilot, TLAPS

(***************************************************************************)
(* The numbers.                                                            *)
(***************************************************************************)

\* The low part is at most the whole cycle.
LEMMA PulseWidthInCycle ==
  ASSUME NEW d \in PerMil
  PROVE  PulseWidth(d) \in 0 .. Period + 1
<1> DEFINE n == Period + 1
<1>0. Period \in Nat
  BY ControlPilotAssumption DEF ControlPilotAssumption
<1>1. n \in Nat /\ d \in Nat /\ d <= 1000
  BY <1>0 DEF PerMil, Below
<1> HIDE DEF n
<1>2. /\ n * (1000 - d) \in Nat
      /\ n * (1000 - d) <= n * 1000
  <2>1. n * d \in Nat
    BY <1>1
  <2>2. n * (1000 - d) = n * 1000 - n * d
    BY <1>1
  <2>3. n * d <= n * 1000
    BY <1>1
  <2> QED  BY <1>1, <2>1, <2>2, <2>3
<1>3. (n * (1000 - d)) \div 1000 \in 0 .. n
  <2> DEFINE x == n * (1000 - d)
  <2>1. x \in Nat /\ x <= n * 1000
    BY <1>2
  <2> HIDE DEF x
  <2>2. x \div 1000 \in 0 .. n
    BY <1>1, <2>1
  <2> QED  BY <2>2 DEF x
<1> QED  BY <1>3 DEF PulseWidth, n

\* The trigger lies in the cycle, and in its high part if there is one.
LEMMA TriggerPointInHighPart ==
  ASSUME NEW p \in 0 .. Period + 1
  PROVE  /\ TriggerPoint(p) \in 0 .. Period
         /\ p <= Period => TriggerPoint(p) >= p
BY ControlPilotAssumption DEF ControlPilotAssumption, TriggerPoint

\* What the interrupt stores fits its 16 bits, and what wraps around is small.
LEMMA RawValueIn16Bits ==
  ASSUME NEW code \in Uint16
  PROVE  /\ RawValue(code) \in Uint16
         /\ code % 32768 >= 32168 => RawValue(code) < 1200
<1> DEFINE r == code % 32768
<1>1. r \in Nat /\ r < 32768
  BY DEF Uint16, Below
<1> HIDE DEF r
<1> DEFINE v == IF r * 2 + 1200 < 65536 THEN r * 2 + 1200 ELSE r * 2 + 1200 - 65536
<1>2. /\ v \in Nat /\ v < 65536
      /\ r >= 32168 => v < 1200
  BY <1>1
<1>3. RawValue(code) = v
  BY <1>1 DEF RawValue, r
<1> HIDE DEF v
<1> QED  BY <1>2, <1>3 DEF Uint16, Below, r

LEMMA ClassifyType ==
  ASSUME NEW value
  PROVE  Classify(value) \in CpStates \cup {"Unknown"}
BY DEF Classify

\* A conversion that overflows is never taken for a state of the EV: StateOf is the
\* state that the debounce sees, and the sum that wraps around in the interrupt lies
\* below all bands.
THEOREM OverrangeIsUnknown ==
  ASSUME NEW code \in Uint16, code % 32768 >= 32168
  PROVE  StateOf(code) = "Unknown"
<1> DEFINE v == RawValue(code)
<1>1. v \in Nat /\ v < 1200
  BY RawValueIn16Bits DEF Uint16, Below
<1> HIDE DEF v
<1>2. Scaled(v) \in Nat /\ Scaled(v) < 25000
  <2>1. v * 9 \in Nat /\ v * 9 < 10800
    BY <1>1
  <2> DEFINE w == v * 9
  <2> HIDE DEF w
  <2>2. w \in Nat /\ w < 10800
    BY <2>1 DEF w
  <2>3. w \div 8 \in Nat /\ w \div 8 < 25000
    BY <2>2
  <2> QED  BY <2>3 DEF Scaled, w
<1>3. \A s \in CpStates : MinLevel[s] >= 25000 /\ MinLevel[s] \in Nat
  BY DEF CpStates, MinLevel
<1>4. \A s \in CpStates : ~InBand(Scaled(v), s)
  BY <1>2, <1>3 DEF InBand
<1>5. Classify(v) = "Unknown"
  BY <1>4 DEF Classify
<1> QED  BY <1>5 DEF StateOf, v

(***************************************************************************)
(* The invariant: the trigger is the one that belongs to the pulse width   *)
(* unless the task is between the two, and the counter of the debounce is  *)
(* the length of the run of valid readings.                                *)
(***************************************************************************)
TriggerFollows == task = "idle" => trigger = TriggerPoint(pulse)
Counted ==
  /\ count = IF validRun < 2 THEN validRun ELSE 2
  /\ validRun > 0 => lastRead # "Unknown"
  /\ validRun = 3 => returned = lastRead
IInv == TypeOK /\ TriggerFollows /\ Counted

LEMMA InitIInv == Init => IInv
<1> SUFFICES ASSUME Init PROVE IInv
  OBVIOUS
<1>1. pulse \in 0 .. Period + 1
  BY PulseWidthInCycle DEF Init, DefaultDuty, PerMil, Below
<1>2. trigger \in 0 .. Period
  BY <1>1, TriggerPointInHighPart DEF Init
<1>3. TypeOK
  BY <1>1, <1>2 DEF Init, TypeOK, PerMil, Uint16, Below, SuccessiveSameState
<1> QED  BY <1>3 DEF Init, IInv, TriggerFollows, Counted

LEMMA NextIInv == IInv /\ [Next]_vars => IInv'
<1> SUFFICES ASSUME IInv, [Next]_vars PROVE IInv'
  OBVIOUS
<1> USE DEF IInv
<1>1. CASE UNCHANGED vars
  BY <1>1 DEF vars, pwm, debounce, TypeOK, TriggerFollows, Counted
<1>2. CASE MoveLine
  BY <1>2 DEF MoveLine, pwm, debounce, TypeOK, TriggerFollows, Counted
<1>3. ASSUME NEW d \in Duties, UpdatePWM(d)  PROVE IInv'
  <2>1. d \in PerMil
    BY ControlPilotAssumption DEF ControlPilotAssumption
  <2>2. pulse' \in 0 .. Period + 1
    BY <1>3, <2>1, PulseWidthInCycle DEF UpdatePWM
  <2>3. TypeOK'
    BY <1>3, <2>1, <2>2 DEF UpdatePWM, debounce, TypeOK
  <2> QED  BY <1>3, <2>3 DEF UpdatePWM, debounce, TriggerFollows, Counted
<1>4. CASE UpdateADCTriggerPeriod
  <2>1. trigger' \in 0 .. Period
    BY <1>4, TriggerPointInHighPart DEF UpdateADCTriggerPeriod, TypeOK
  <2>2. TypeOK'
    BY <1>4, <2>1 DEF UpdateADCTriggerPeriod, debounce, TypeOK
  <2> QED  BY <1>4, <2>2 DEF UpdateADCTriggerPeriod, debounce, TriggerFollows, Counted
<1>5. CASE Sample
  <2>1. PICK p \in shown : raw' = RawValue(IF trigger >= p THEN line ELSE LowCode)
    BY <1>5 DEF Sample
  <2>2. (IF trigger >= p THEN line ELSE LowCode) \in Uint16
    BY ControlPilotAssumption DEF ControlPilotAssumption, TypeOK
  <2>3. raw' \in Uint16
    BY <2>1, <2>2, RawValueIn16Bits
  <2>4. TypeOK'
    BY <1>5, <2>3 DEF Sample, pwm, debounce, TypeOK
  <2> QED  BY <1>5, <2>4 DEF Sample, pwm, debounce, TriggerFollows, Counted
<1>6. CASE ReadControlPilot
  <2> DEFINE state == Classify(raw)
  <2>1. state \in CpStates \cup {"Unknown"}
    BY ClassifyType
  <2>2. /\ count' = Count(state)
        /\ returned' = IF state # "Unknown" /\ count = 2 THEN state ELSE returned
        /\ lastRead' = state
        /\ validRun' = IF state = "Unknown" THEN 0
                       ELSE IF validRun < 3 THEN validRun + 1 ELSE validRun
        /\ UNCHANGED <<line, duty, pulse, trigger, task, shown, raw>>
    BY <1>6 DEF ReadControlPilot, pwm, SuccessiveSameState
  <2> HIDE DEF state
  <2>3. /\ count \in 0 .. 2 /\ validRun \in 0 .. 3
        /\ count = IF validRun < 2 THEN validRun ELSE 2
    BY DEF TypeOK, SuccessiveSameState, Counted
  <2>4. TypeOK'
    BY <2>1, <2>2, <2>3 DEF TypeOK, Count, SuccessiveSameState
  <2>5. TriggerFollows'
    BY <2>2 DEF TriggerFollows
  <2>6. Counted'
    <3>1. CASE state = "Unknown"
      BY <2>2, <2>3, <3>1 DEF Counted, Count
    <3>2. CASE state # "Unknown"
      BY <2>1, <2>2, <2>3, <3>2 DEF Counted, Count, SuccessiveSameState
    <3> QED  BY <3>1, <3>2
  <2> QED  BY <2>4, <2>5, <2>6
<1> QED  BY <1>1, <1>2, <1>3, <1>4, <1>5, <1>6 DEF Next

\* Type correctness: no match value leaves the cycle and no sample its 16 bits.
THEOREM PilotTypes == Spec => []TypeOK
<1>1. IInv => TypeOK
  BY DEF IInv
<1> QED  BY <1>1, InitIInv, NextIInv, PTL DEF Spec

\* Between two updates the sample is taken in the high part of the cycle
\* (CTIMER_CalculateADCTriggerPoint after ControlPilot_UpdatePWM).
THEOREM SamplesAreHigh == Spec => []SamplesHighPart
<1>1. IInv => SamplesHighPart
  <2> SUFFICES ASSUME IInv, task = "idle", pulse <= Period  PROVE trigger >= pulse
    BY DEF SamplesHighPart
  <2>1. pulse \in 0 .. Period + 1 /\ trigger = TriggerPoint(pulse)
    BY DEF IInv, TypeOK, TriggerFollows
  <2> QED  BY <2>1, TriggerPointInHighPart
<1> QED  BY <1>1, InitIInv, NextIInv, PTL DEF Spec

\* The debounce of EVSE_LL_ReadControlPilot as it is: the stack is told another state
\* from the third valid reading in a row on, and then every single one.
THEOREM DebounceIsThree == Spec => ToldAfterThree
<1>1. IInv => (validRun = 3 => returned = lastRead)
  BY DEF IInv, Counted
<1>2. IInv /\ [Next]_vars => [returned' # returned => validRun' = 3]_vars
  <2> SUFFICES ASSUME IInv, Next, returned' # returned  PROVE validRun' = 3
    OBVIOUS
  <2>1. ReadControlPilot
    BY DEF Next, MoveLine, UpdatePWM, UpdateADCTriggerPeriod, Sample, debounce
  <2>2. /\ Classify(raw) # "Unknown" /\ count = 2
        /\ validRun' = IF validRun < 3 THEN validRun + 1 ELSE validRun
    BY <2>1 DEF ReadControlPilot, SuccessiveSameState
  <2>3. /\ validRun \in 0 .. 3
        /\ count = IF validRun < 2 THEN validRun ELSE 2
    BY DEF IInv, TypeOK, Counted
  <2> QED  BY <2>2, <2>3
<1> QED  BY <1>1, <1>2, InitIInv, NextIInv, PTL DEF Spec, ToldAfterThree
(***************************************************************************)
(* How long the station needs to follow a line that has settled: what      *)
(* LineIsFollowed says for ever, with the samples and readings counted.    *)
(***************************************************************************)
Settled(c) == line = c /\ task = "idle" /\ pulse <= Period

\* The samples and readings that are missing until the stack is told of c: a sample of
\* a cycle whose output may still follow an earlier match value, a sample of the level,
\* and the readings that the debounce waits for.
Missing(c) ==
  IF shown # {pulse} THEN 5
  ELSE IF raw # RawValue(c) THEN 4
  ELSE IF returned # StateOf(c) THEN 3 - count
  ELSE 0

Readable == {c \in Codes : StateOf(c) # "Unknown"}
MissingInFive ==
  \A c \in Readable : Missing(c) \in 0 .. 5 /\ (Missing(c) = 0 => returned = StateOf(c))
Nearer(c) ==
  /\ Missing(c)' <= Missing(c)
  /\ Sample /\ Missing(c) > 3 => Missing(c)' < Missing(c)
  /\ ReadControlPilot /\ Missing(c) \in 1 .. 3 => Missing(c)' < Missing(c)

\* On a settled line no step adds to what is missing, each sample or reading that is
\* waited for takes away from it, and nothing is missing only when the stack was told.
FollowedInFive ==
  /\ []MissingInFive
  /\ [][\A c \in Readable : Settled(c) /\ Settled(c)' => Nearer(c)]_vars

\* What is missing is at most two samples and three readings.
LEMMA MissingType ==
  ASSUME IInv, NEW c
  PROVE  Missing(c) \in 0 .. 5 /\ (Missing(c) = 0 => returned = StateOf(c))
BY DEF IInv, TypeOK, SuccessiveSameState, Missing

\* A sample of a settled line is of its high part once the output follows one value.
LEMMA SampleOfSettled ==
  ASSUME IInv, NEW c, Settled(c), Sample
  PROVE  /\ shown' = {pulse'} /\ UNCHANGED <<returned, count>>
         /\ shown = {pulse} => raw' = RawValue(c)
<1>1. pulse \in 0 .. Period + 1 /\ trigger = TriggerPoint(pulse)
  BY DEF IInv, TypeOK, TriggerFollows, Settled
<1>2. trigger >= pulse
  BY <1>1, TriggerPointInHighPart DEF Settled
<1> QED  BY <1>2 DEF Sample, Settled, pwm, debounce

\* A reading of the level of a settled line counts, and the third one tells.
LEMMA ReadingOfSettled ==
  ASSUME IInv, NEW c, StateOf(c) # "Unknown", ReadControlPilot
  PROVE  /\ UNCHANGED <<shown, pulse, raw>>
         /\ raw = RawValue(c) =>
              /\ returned' = IF count = 2 THEN StateOf(c) ELSE returned
              /\ count' = IF count = 2 THEN 2 ELSE count + 1
BY DEF ReadControlPilot, StateOf, Count, SuccessiveSameState, pwm

\* Two samples and three readings are enough for the stack to be told of a line that
\* has settled (ADC_IRQHANDLER, EVSE_LL_ReadControlPilot), for every period and duty
\* cycle with a high part.
THEOREM LineIsToldSoon == Spec => FollowedInFive
<1>1. IInv => MissingInFive
  BY MissingType DEF MissingInFive
<1>2. ASSUME IInv, IInv', [Next]_vars, NEW c \in Readable, Settled(c), Settled(c)'
      PROVE  Nearer(c)
  <2>0. count \in 0 .. 2 /\ count' \in 0 .. 2
    BY <1>2 DEF IInv, TypeOK, SuccessiveSameState
  <2>1. Sample => /\ Missing(c)' <= Missing(c)
                  /\ Missing(c) > 3 => Missing(c)' < Missing(c)
    <3> SUFFICES ASSUME Sample
                 PROVE  /\ Missing(c)' <= Missing(c)
                        /\ Missing(c) > 3 => Missing(c)' < Missing(c)
      OBVIOUS
    <3>1. /\ shown' = {pulse'} /\ UNCHANGED <<returned, count>>
          /\ shown = {pulse} => raw' = RawValue(c)
      BY <1>2, SampleOfSettled
    <3> QED  BY <2>0, <3>1 DEF Missing
  <2>2. ReadControlPilot => /\ Missing(c)' <= Missing(c)
                            /\ Missing(c) \in 1 .. 3 => Missing(c)' < Missing(c)
    <3> SUFFICES ASSUME ReadControlPilot
                 PROVE  /\ Missing(c)' <= Missing(c)
                        /\ Missing(c) \in 1 .. 3 => Missing(c)' < Missing(c)
      OBVIOUS
    <3>1. /\ UNCHANGED <<shown, pulse, raw>>
          /\ raw = RawValue(c) =>
               /\ returned' = IF count = 2 THEN StateOf(c) ELSE returned
               /\ count' = IF count = 2 THEN 2 ELSE count + 1
      BY <1>2, ReadingOfSettled DEF Readable
    <3>2. CASE shown # {pulse} \/ raw # RawValue(c)
      <4>1. Missing(c)' = Missing(c) /\ Missing(c) \in {4, 5}
        BY <3>1, <3>2 DEF Missing
      <4> QED  BY <4>1
    <3>3. CASE shown = {pulse} /\ raw = RawValue(c)
      <4>1. /\ Missing(c) = IF returned # StateOf(c) THEN 3 - count ELSE 0
            /\ Missing(c)' = IF returned' # StateOf(c) THEN 3 - count' ELSE 0
        BY <3>1, <3>3 DEF Missing
      <4>2. CASE returned = StateOf(c)
        <5>1. Missing(c) = 0 /\ Missing(c)' = 0
          BY <3>1, <3>3, <4>1, <4>2
        <5> QED  BY <5>1
      <4>3. CASE returned # StateOf(c) /\ count = 2
        <5>1. Missing(c) = 1 /\ Missing(c)' = 0
          BY <3>1, <3>3, <4>1, <4>3
        <5> QED  BY <5>1
      <4>4. CASE returned # StateOf(c) /\ count # 2
        <5>1. Missing(c) = 3 - count /\ Missing(c)' = 2 - count
          BY <2>0, <3>1, <3>3, <4>1, <4>4
        <5> QED  BY <2>0, <5>1
      <4> QED  BY <4>2, <4>3, <4>4
    <3> QED  BY <3>2, <3>3
  <2>3. UNCHANGED vars => Missing(c)' <= Missing(c)
    <3> SUFFICES ASSUME UNCHANGED vars PROVE Missing(c)' <= Missing(c)
      OBVIOUS
    <3>1. Missing(c)' = Missing(c)
      BY DEF vars, pwm, debounce, Missing
    <3> QED  BY <1>2, <3>1, MissingType
  <2>4. ~MoveLine /\ ~UpdateADCTriggerPeriod /\ \A d \in Duties : ~UpdatePWM(d)
    BY <1>2 DEF MoveLine, UpdateADCTriggerPeriod, UpdatePWM, Settled
  <2> QED  BY <1>2, <2>1, <2>2, <2>3, <2>4 DEF Next, Nearer
<1>3. IInv /\ IInv' /\ [Next]_vars =>
        [\A c \in Readable : Settled(c) /\ Settled(c)' => Nearer(c)]_vars
  BY <1>2
<1> QED  BY <1>1, <1>3, InitIInv, NextIInv, PTL DEF Spec, FollowedInFive
=============================================================================
