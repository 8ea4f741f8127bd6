-------------------------- MODULE Iec61851_proofs ---------------------------
(***************************************************************************)
(* What the operators of the J1772 stack keep, for the proofs about the    *)
(* charging task and about the station: the type of the struct.            *)
(***************************************************************************)
EXTENDS Iec61851, TLAPS

\* GetDutyCycleFromAmps never gives a duty cycle that counts as a steady pilot.
LEMMA DutyType ==
  ASSUME NEW amps \in Nat
  PROVE  GetDutyCycleFromAmps(amps) \in Nat /\ GetDutyCycleFromAmps(amps) < PWM100_MIN_VALUE
BY SMT DEF GetDutyCycleFromAmps, PWM100_MIN_VALUE

\* SetState keeps the type of the struct.
LEMMA SetStateType ==
  ASSUME NEW r \in J1772Type, NEW s \in States
  PROVE  SetState(r, s) \in J1772Type
<1> USE Iec61851Assumption DEF J1772Type, J1772Events
<1>1. EnterStandby(r, s) \in J1772Type
  BY DEF EnterStandby, DisablePower, ResetVehicleData, Raise
<1>2. EnterB(r) \in J1772Type
  BY DEF EnterB, DisablePower, StopCharging, Raise
<1>3. EnterB2(r) \in J1772Type
  BY DEF EnterB2, DisablePower, StopCharging
<1>4. EnterCD(r, s) \in J1772Type
  BY DEF EnterCD, DisablePower, StopCharging
<1>5. EnterCD2(r, s) \in J1772Type
  BY DEF EnterCD2, EnablePower, StopCharging
<1>6. EnterFault(r) \in J1772Type
  BY DEF EnterFault, DisablePower
<1> QED
  BY <1>1, <1>2, <1>3, <1>4, <1>5, <1>6 DEF SetState

\* Storing a duty cycle keeps the type of the struct.
LEMMA SteadyType ==
  ASSUME NEW r \in J1772Type
  PROVE  /\ Steady(r) \in J1772Type
         /\ Advertise(r) \in J1772Type
         /\ Advertise(r).pwm < PWM100_MIN_VALUE
BY DutyType DEF Steady, Advertise, J1772Type, PWM100_MAX_VALUE

\* The handlers of Loop_EVSE keep it.
LEMMA HandlersType ==
  ASSUME NEW r \in J1772Type, NEW in \in Inputs
  PROVE  /\ HandleA(r, in) \in J1772Type /\ HandleA2(r, in) \in J1772Type
         /\ HandleB(r, in) \in J1772Type /\ HandleB2(r, in) \in J1772Type
         /\ HandleCD(r, in) \in J1772Type /\ HandleCD2(r, in) \in J1772Type
         /\ HandleEF(r, in) \in J1772Type /\ HandleLast(r, in) \in J1772Type
<1>1. /\ "A" \in States /\ "A2" \in States /\ "B" \in States /\ "B2" \in States
      /\ "C" \in States /\ "C2" \in States /\ "D" \in States /\ "D2" \in States
      /\ "F" \in States
  BY DEF States
<1> USE SetStateType, SteadyType, <1>1
<1>2. HandleA(r, in) \in J1772Type /\ HandleA2(r, in) \in J1772Type
  BY DEF HandleA, HandleA2
<1>3. HandleB(r, in) \in J1772Type
  <2> DEFINE a == Authorize(r, in)
  <2>1. a \in J1772Type
    BY DEF Authorize, J1772Type
  <2> HIDE DEF a
  <2> QED
    BY <2>1 DEF HandleB, a
<1>4. HandleB2(r, in) \in J1772Type
  BY DEF HandleB2
<1>5. HandleCD(r, in) \in J1772Type
  <2> DEFINE moved == IF in.cp \in {"C", "D"} THEN SetState(r, in.cp) ELSE r
  <2>1. moved \in J1772Type
    OBVIOUS
  <2> HIDE DEF moved
  <2> QED
    BY <2>1 DEF HandleCD, moved
<1>6. HandleCD2(r, in) \in J1772Type
  <2> DEFINE vented == IF r.state = "C2" /\ in.cp = "D" THEN SetState(r, "D2") ELSE r
             on     == Advertise(Measure(vented, in))
             moved  == IF in.cp = "C" /\ r.cp = "D" THEN SetState(on, "C2") ELSE on
  <2>1. vented \in J1772Type
    OBVIOUS
  <2> HIDE DEF vented
  <2>2. Measure(vented, in) \in J1772Type
    BY <2>1, Iec61851Assumption DEF Measure, J1772Type, Inputs
  <2>3. on \in J1772Type
    BY <2>2
  <2> HIDE DEF on
  <2>4. moved \in J1772Type
    BY <2>3
  <2> HIDE DEF moved
  <2> QED
    BY <2>3, <2>4 DEF HandleCD2, vented, on, moved
<1>7. HandleEF(r, in) \in J1772Type /\ HandleLast(r, in) \in J1772Type
  BY DEF HandleEF, HandleLast
<1> QED
  BY <1>2, <1>3, <1>4, <1>5, <1>6, <1>7

\* A pass of the loop and a request to stop keep it.
LEMMA LoopType ==
  ASSUME NEW r \in J1772Type, NEW in \in Inputs
  PROVE  LoopEvse(r, in) \in J1772Type
<1> DEFINE q == [r EXCEPT !.raised = {}, !.overCurrent = @ /\ ~in.expired]
           h == CASE q.state = "A"            -> HandleA(q, in)
                  [] q.state = "A2"           -> HandleA2(q, in)
                  [] q.state = "B"            -> HandleB(q, in)
                  [] q.state = "B2"           -> HandleB2(q, in)
                  [] q.state \in {"C", "D"}   -> HandleCD(q, in)
                  [] q.state \in {"C2", "D2"} -> HandleCD2(q, in)
                  [] q.state \in {"E", "F"}   -> HandleEF(q, in)
                  [] OTHER                    -> HandleLast(q, in)
<1>1. q \in J1772Type
  <2>1. (r.overCurrent /\ ~in.expired) \in BOOLEAN
    OBVIOUS
  <2>2. ASSUME NEW e \in BOOLEAN PROVE [r EXCEPT !.raised = {}, !.overCurrent = e] \in J1772Type
    BY DEF J1772Type
  <2> QED
    BY <2>1, <2>2
<1>2. LoopEvse(r, in) = [h EXCEPT !.cp = in.cp]
  BY DEF LoopEvse
<1> HIDE DEF q
<1>3. h \in J1772Type
  BY <1>1, HandlersType
<1> HIDE DEF h
<1> QED
  BY <1>2, <1>3 DEF J1772Type, Inputs

LEMMA StopType ==
  ASSUME NEW r \in J1772Type
  PROVE  StopCharging(r, TRUE) \in J1772Type
BY DEF StopCharging, J1772Type

LEMMA InitStructType == InitStruct \in J1772Type
BY DEF InitStruct, J1772Type, States, CpStates, PWM100_MAX_VALUE, DEFAULT_MAX_CURRENT
-----------------------------------------------------------------------------
(* The invariant of the struct over a pass.                                *)

\* The history variables after a pass that turned r into t.
NextPlugged(t, p) ==
  "EvDisconnected" \notin t.raised /\ (p \/ "EvConnected" \in t.raised)
NextGranted(t, r, in, g) ==
  /\ "EvDisconnected" \notin t.raised
  /\ g \/ (PollsAuth(r, in.cp) /\ in.answer = "Accept")

\* What a pass must keep, and what it announces about the session.
Announced(r, in, t) ==
  /\ "EvDisconnected" \in t.raised => r.contactor = "open" /\ t.contactor = "open"
  /\ "EvConnected" \in t.raised => /\ r.state = "A"
                                   /\ "EvDisconnected" \notin t.raised
  /\ PollsAuth(r, in.cp) => /\ t.contactor = "open"
                            /\ "EvDisconnected" \notin t.raised
Preserved(r, in, p, g, t) ==
  /\ t \in J1772Type
  /\ StateInv(t, NextPlugged(t, p), NextGranted(t, r, in, g))
  /\ Announced(r, in, t)

\* The part of the struct that SetState never writes.
Kept(t, r) == t.pwm = r.pwm /\ t.maxCurrent = r.maxCurrent
-----------------------------------------------------------------------------
(* What the building blocks do.                                            *)

\* Entering A ends the session with the power off.
LEMMA EnterAFacts ==
  ASSUME NEW r \in J1772Type, r.state # "A"
  PROVE  LET t == SetState(r, "A") IN
         /\ t.state = "A" /\ t.contactor = "open" /\ ~t.isCharging /\ ~t.authNeeded
         /\ t.raised = r.raised \cup {"EvDisconnected", "ChargingStopped"}
         /\ t.ready /\ t.fan = r.fan /\ Kept(t, r)
BY DEF J1772Type, SetState, EnterStandby, DisablePower, ResetVehicleData, Raise, Kept

\* Entering A2 opens the contactor and says nothing to the OCPP task about the EV.
LEMMA EnterA2Facts ==
  ASSUME NEW r \in J1772Type, r.state # "A2"
  PROVE  LET t == SetState(r, "A2") IN
         /\ t.state = "A2" /\ t.contactor = "open" /\ ~t.isCharging
         /\ t.authNeeded = r.authNeeded
         /\ t.raised = r.raised \cup {"ChargingStopped"}
         /\ t.ready /\ t.fan = r.fan /\ Kept(t, r)
BY DEF J1772Type, SetState, EnterStandby, DisablePower, ResetVehicleData, Raise, Kept

\* Entering B opens the contactor and, from A or A2, announces an EV.
LEMMA EnterBFacts ==
  ASSUME NEW r \in J1772Type, r.state # "B"
  PROVE  LET t == SetState(r, "B") IN
         /\ t.state = "B" /\ t.contactor = "open" /\ ~t.isCharging
         /\ IF r.state \in {"A", "A2"}
              THEN t.authNeeded /\ t.raised = r.raised \cup {"EvConnected", "AuthNeeded", "ChargingStopped"}
              ELSE t.authNeeded = r.authNeeded /\ t.raised = r.raised \cup {"ChargingStopped"}
         /\ t.ready /\ t.fan = r.fan /\ Kept(t, r)
BY DEF J1772Type, SetState, EnterB, DisablePower, StopCharging, Raise, Kept

\* Entering B2 never closes the contactor.
LEMMA EnterB2Facts ==
  ASSUME NEW r \in J1772Type, r.state # "B2"
  PROVE  LET t == SetState(r, "B2") IN
         /\ t.state = "B2" /\ ~t.isCharging /\ t.authNeeded = r.authNeeded
         /\ \/ t.contactor = r.contactor /\ t.raised = r.raised
            \/ t.contactor = "open" /\ t.raised = r.raised \cup {"ChargingStopped"}
         /\ t.ready /\ t.fan = r.fan /\ Kept(t, r)
<1>1. CASE r.state \in {"C2", "D2"} /\ r.current >= MIN_CURRENT_DRAW
  BY <1>1 DEF J1772Type, SetState, EnterB2, DisablePower, StopCharging, Kept
<1>2. CASE ~(r.state \in {"C2", "D2"} /\ r.current >= MIN_CURRENT_DRAW)
  BY <1>2 DEF J1772Type, SetState, EnterB2, StopCharging, Kept
<1> QED BY <1>1, <1>2

\* Entering C or D from elsewhere opens the contactor.
LEMMA EnterCDFacts ==
  ASSUME NEW r \in J1772Type, NEW s \in {"C", "D"}, r.state # s
  PROVE  LET t == SetState(r, s) IN
         /\ t.state = s /\ t.authNeeded = r.authNeeded /\ t.fan = r.fan /\ Kept(t, r)
         /\ IF r.state \in {"C", "D"}
              THEN t.contactor = r.contactor /\ t.isCharging = r.isCharging /\ t.raised = r.raised
              ELSE t.contactor = "open" /\ ~t.isCharging /\ t.raised = r.raised \cup {"ChargingStopped"}
         /\ t.overCurrent = r.overCurrent
BY DEF J1772Type, SetState, EnterCD, DisablePower, StopCharging, Kept

\* Entering C2 or D2 closes the contactor exactly when the stack is ready.
LEMMA EnterCD2Facts ==
  ASSUME NEW r \in J1772Type, NEW s \in {"C2", "D2"}, r.state # s
  PROVE  LET t == SetState(r, s) IN
         /\ t.state = s /\ t.authNeeded = r.authNeeded /\ Kept(t, r)
         /\ HasVentilation /\ s = "D2" => t.fan
         /\ t.overCurrent = r.overCurrent
         /\ IF t.ready
              THEN t.contactor = "closed" /\ t.isCharging /\ t.raised = r.raised \cup {"ChargingStarted"}
              ELSE t.contactor = r.contactor /\ t.isCharging = r.isCharging /\ t.raised = r.raised
BY Iec61851Assumption DEF J1772Type, SetState, EnterCD2, EnablePower, StopCharging, Kept

\* Entering F opens the contactor.
LEMMA EnterFaultFacts ==
  ASSUME NEW r \in J1772Type, r.state # "F"
  PROVE  LET t == SetState(r, "F") IN
         /\ t.state = "F" /\ t.contactor = "open" /\ ~t.isCharging
         /\ t.authNeeded = r.authNeeded
         /\ t.raised = r.raised \cup {"ChargingStopped"}
BY DEF J1772Type, SetState, EnterFault, DisablePower
-----------------------------------------------------------------------------
(* Each handler of the loop keeps StateInv.                                *)

USE DEF Preserved, Announced, StateInv, SessionOfState, NextPlugged, NextGranted,
        PWM100_MIN_VALUE, PWM100_MAX_VALUE

\* A pass in state A.
LEMMA HandleAPreserves ==
  ASSUME NEW r \in J1772Type, NEW in \in Inputs, NEW p \in BOOLEAN, NEW g \in BOOLEAN,
         StateInv(r, p, g), r.raised = {}, r.state \in {"A"}
  PROVE  Preserved(r, in, p, g, HandleA(r, in))
<1>1. CASE in.cp = "B"
  <2>1. SetState(r, "B") \in J1772Type /\ Steady(SetState(r, "B")) \in J1772Type
    BY SetStateType, SteadyType DEF States
  <2> QED
    BY <1>1, <2>1, EnterBFacts DEF HandleA, Steady, Kept, PollsAuth, J1772Type
<1>2. CASE in.cp = "F"
  BY <1>2, EnterFaultFacts, SetStateType DEF HandleA, PollsAuth, States
<1>3. CASE in.cp \notin {"B", "F"}
  BY <1>3 DEF HandleA, PollsAuth
<1> QED
  BY <1>1, <1>2, <1>3

\* A pass in state A2.
LEMMA HandleA2Preserves ==
  ASSUME NEW r \in J1772Type, NEW in \in Inputs, NEW p \in BOOLEAN, NEW g \in BOOLEAN,
         StateInv(r, p, g), r.raised = {}, r.state \in {"A2"}
  PROVE  Preserved(r, in, p, g, HandleA2(r, in))
<1>1. CASE in.cp = "A"
  <2>1. SetState(r, "A") \in J1772Type /\ Steady(SetState(r, "A")) \in J1772Type
    BY SetStateType, SteadyType DEF States
  <2> QED
    BY <1>1, <2>1, EnterAFacts DEF HandleA2, Steady, Kept, PollsAuth, J1772Type
<1>2. CASE in.cp = "B"
  BY <1>2, EnterB2Facts, SetStateType DEF HandleA2, PollsAuth, States, Kept
<1>3. CASE in.cp = "F"
  BY <1>3, EnterFaultFacts, SetStateType DEF HandleA2, PollsAuth, States
<1>4. CASE in.cp \notin {"A", "B", "F"}
  BY <1>4 DEF HandleA2, PollsAuth
<1> QED
  BY <1>1, <1>2, <1>3, <1>4

\* A pass in state B, the one that polls for the authorization.
LEMMA HandleBPreserves ==
  ASSUME NEW r \in J1772Type, NEW in \in Inputs, NEW p \in BOOLEAN, NEW g \in BOOLEAN,
         StateInv(r, p, g), r.raised = {}, r.state \in {"B"}
  PROVE  Preserved(r, in, p, g, HandleB(r, in))
<1>1. CASE in.cp = "A"
  <2>1. SetState(r, "A") \in J1772Type /\ Steady(SetState(r, "A")) \in J1772Type
    BY SetStateType, SteadyType DEF States
  <2> QED
    BY <1>1, <2>1, EnterAFacts DEF HandleB, Steady, Kept, PollsAuth, J1772Type
<1>2. CASE in.cp = "B"
  <2> DEFINE a == Authorize(r, in)
             t == SetState(a, "B2")
  <2>1. /\ a \in J1772Type
        /\ a.state = "B" /\ a.pwm = r.pwm /\ a.raised = {} /\ a.contactor = r.contactor
        /\ a.isCharging = r.isCharging
        /\ a.authNeeded <=> (r.authNeeded /\ in.answer # "Accept")
        /\ a.authNeeded => ~a.ready
    <3>1. CASE ~r.authNeeded
      BY <3>1 DEF Authorize
    <3>2. CASE r.authNeeded /\ in.answer = "Accept"
      BY <3>2 DEF Authorize, J1772Type
    <3>3. CASE r.authNeeded /\ in.answer # "Accept"
      BY <3>3 DEF Authorize, J1772Type
    <3> QED
      BY <3>1, <3>2, <3>3
  <2>2. t \in J1772Type /\ Advertise(t) \in J1772Type /\ Advertise(t).pwm < PWM100_MIN_VALUE
    BY <2>1, SetStateType, SteadyType DEF States
  <2>3. /\ t.state = "B2" /\ ~t.isCharging /\ t.authNeeded = a.authNeeded /\ t.contactor = "open"
        /\ "EvConnected" \notin t.raised /\ "EvDisconnected" \notin t.raised
    BY <2>1, EnterB2Facts DEF J1772Type
  <2>4. a.pwm = PWM100_MAX_VALUE
    BY <2>1
  <2>5. CASE a.ready
    <3>1. HandleB(r, in) = Advertise(t)
      BY <1>2, <2>4, <2>5 DEF HandleB
    <3>2. /\ Advertise(t).state = "B2" /\ ~Advertise(t).isCharging
          /\ Advertise(t).authNeeded = a.authNeeded /\ Advertise(t).contactor = "open"
          /\ Advertise(t).raised = t.raised
      BY <2>2, <2>3 DEF Advertise, J1772Type
    <3> QED
      BY <1>2, <2>1, <2>2, <2>3, <2>5, <3>1, <3>2 DEF PollsAuth, J1772Type
  <2>6. CASE ~a.ready
    <3>1. HandleB(r, in) = a
      BY <1>2, <2>4, <2>6 DEF HandleB
    <3> QED
      BY <1>2, <2>1, <2>6, <3>1 DEF PollsAuth, J1772Type
  <2> QED
    BY <2>5, <2>6
<1>3. CASE in.cp = "F"
  BY <1>3, EnterFaultFacts, SetStateType DEF HandleB, PollsAuth, States
<1>4. CASE in.cp \notin {"A", "B", "F"}
  BY <1>4 DEF HandleB, PollsAuth
<1> QED
  BY <1>1, <1>2, <1>3, <1>4

\* A pass in state B2.
LEMMA HandleB2Preserves ==
  ASSUME NEW r \in J1772Type, NEW in \in Inputs, NEW p \in BOOLEAN, NEW g \in BOOLEAN,
         StateInv(r, p, g), r.raised = {}, r.state \in {"B2"}
  PROVE  Preserved(r, in, p, g, HandleB2(r, in))
<1>1. CASE in.cp = "A"
  BY <1>1, EnterA2Facts, SetStateType DEF HandleB2, PollsAuth, States, Kept
<1>2. CASE in.cp = "B" /\ ~r.ready
  <2>1. SetState(r, "B") \in J1772Type /\ Steady(SetState(r, "B")) \in J1772Type
    BY SetStateType, SteadyType DEF States
  <2> QED
    BY <1>2, <2>1, EnterBFacts DEF HandleB2, Steady, Kept, PollsAuth, J1772Type
<1>3. CASE in.cp = "C"
  <2> DEFINE t == SetState(r, "C2")
  <2>1. HandleB2(r, in) = t /\ t \in J1772Type
    BY <1>3, SetStateType DEF HandleB2, States
  <2>2. /\ t.state = "C2" /\ t.authNeeded = r.authNeeded /\ t.pwm = r.pwm
        /\ HasVentilation /\ "C2" = "D2" => t.fan
        /\ IF t.ready
             THEN t.contactor = "closed" /\ t.isCharging /\ t.raised = {"ChargingStarted"}
             ELSE t.contactor = r.contactor /\ t.isCharging = r.isCharging /\ t.raised = {}
    BY EnterCD2Facts DEF Kept
  <2>3. CASE t.ready
    BY <2>1, <2>2, <2>3 DEF PollsAuth
  <2>4. CASE ~t.ready
    BY <2>1, <2>2, <2>4 DEF PollsAuth
  <2> QED
    BY <2>3, <2>4
<1>4. CASE in.cp = "D"
  <2> DEFINE t == SetState(r, "D2")
  <2>1. HandleB2(r, in) = t /\ t \in J1772Type
    BY <1>4, SetStateType DEF HandleB2, States
  <2>2. /\ t.state = "D2" /\ t.authNeeded = r.authNeeded /\ t.pwm = r.pwm
        /\ HasVentilation /\ "D2" = "D2" => t.fan
        /\ IF t.ready
             THEN t.contactor = "closed" /\ t.isCharging /\ t.raised = {"ChargingStarted"}
             ELSE t.contactor = r.contactor /\ t.isCharging = r.isCharging /\ t.raised = {}
    BY EnterCD2Facts DEF Kept
  <2>3. CASE t.ready
    BY <2>1, <2>2, <2>3 DEF PollsAuth
  <2>4. CASE ~t.ready
    BY <2>1, <2>2, <2>4 DEF PollsAuth
  <2> QED
    BY <2>3, <2>4
<1>5. CASE in.cp = "F"
  BY <1>5, EnterFaultFacts, SetStateType DEF HandleB2, PollsAuth, States
<1>6. CASE in.cp \notin {"A", "C", "D", "F"} /\ ~(in.cp = "B" /\ ~r.ready)
  BY <1>6 DEF HandleB2, PollsAuth
<1> QED
  BY <1>1, <1>2, <1>3, <1>4, <1>5, <1>6

\* A pass in state C or D, whose cases fall through into each other.
LEMMA HandleCDPreserves ==
  ASSUME NEW r \in J1772Type, NEW in \in Inputs, NEW p \in BOOLEAN, NEW g \in BOOLEAN,
         StateInv(r, p, g), r.raised = {}, r.state \in {"C", "D"}
  PROVE  Preserved(r, in, p, g, HandleCD(r, in))
<1>1. CASE in.cp = "B"
  <2>1. SetState(r, "B") \in J1772Type /\ Steady(SetState(r, "B")) \in J1772Type
    BY SetStateType, SteadyType DEF States
  <2> QED
    BY <1>1, <2>1, EnterBFacts DEF HandleCD, Steady, Kept, PollsAuth, J1772Type
<1>2. CASE in.cp \in {"C", "D"}
  <2> DEFINE m == SetState(r, in.cp)
             x == IF m.state = "C" THEN "C2" ELSE "D2"
             t == SetState(m, x)
  <2>1. /\ m \in J1772Type /\ m.state = in.cp /\ m.authNeeded = r.authNeeded
        /\ m.pwm = r.pwm /\ m.contactor = "open" /\ ~m.isCharging /\ m.raised = {}
    <3>1. CASE r.state = in.cp
      BY <3>1 DEF SetState, J1772Type
    <3>2. CASE r.state # in.cp
      BY <1>2, <3>2, EnterCDFacts, SetStateType DEF Kept, States, J1772Type
    <3> QED
      BY <3>1, <3>2
  <2>2. CASE m.ready /\ ~m.overCurrent
    <3>1. /\ t \in J1772Type /\ Advertise(t) \in J1772Type
          /\ Advertise(t).pwm < PWM100_MIN_VALUE
      BY <2>1, SetStateType, SteadyType DEF States
    <3>2. HandleCD(r, in) = Advertise(t)
      BY <1>2, <2>1, <2>2 DEF HandleCD
    <3>3. /\ t.state = x /\ t.authNeeded = r.authNeeded
          /\ HasVentilation /\ x = "D2" => t.fan
          /\ IF t.ready
               THEN t.contactor = "closed" /\ t.isCharging /\ t.raised = {"ChargingStarted"}
               ELSE t.contactor = "open" /\ ~t.isCharging /\ t.raised = {}
      BY <1>2, <2>1, EnterCD2Facts DEF J1772Type
    <3>4. /\ Advertise(t).state = t.state /\ Advertise(t).authNeeded = t.authNeeded
          /\ Advertise(t).fan = t.fan /\ Advertise(t).ready = t.ready
          /\ Advertise(t).contactor = t.contactor
          /\ Advertise(t).isCharging = t.isCharging /\ Advertise(t).raised = t.raised
      BY <3>1 DEF Advertise, J1772Type
    <3>5. x \in {"C2", "D2"}
      OBVIOUS
    <3> HIDE DEF t, x
    <3>6. CASE t.ready
      BY <3>1, <3>2, <3>3, <3>4, <3>5, <3>6 DEF PollsAuth
    <3>7. CASE ~t.ready
      BY <3>1, <3>2, <3>3, <3>4, <3>5, <3>7 DEF PollsAuth
    <3> QED
      BY <3>6, <3>7
  <2>3. CASE ~(m.ready /\ ~m.overCurrent)
    <3>1. HandleCD(r, in) = m
      BY <1>2, <2>1, <2>3 DEF HandleCD
    <3> QED
      BY <1>2, <2>1, <3>1 DEF PollsAuth
  <2> QED
    BY <2>2, <2>3
<1>3. CASE in.cp = "A"
  <2>1. r.contactor = "open"
    BY DEF J1772Type
  <2> QED
    BY <1>3, <2>1, EnterAFacts, SetStateType DEF HandleCD, PollsAuth, States, Kept
<1>4. CASE in.cp = "F"
  BY <1>4, EnterFaultFacts, SetStateType DEF HandleCD, PollsAuth, States
<1>5. CASE in.cp \notin {"A", "B", "C", "D", "F"}
  BY <1>5 DEF HandleCD, PollsAuth
<1> QED
  BY <1>1, <1>2, <1>3, <1>4, <1>5

\* What holds throughout a pass in C2 or D2 until it decides where to go.
Charging(x) ==
  /\ x \in J1772Type
  /\ x.state \in {"C2", "D2"}
  /\ ~x.authNeeded
  /\ x.isCharging => x.contactor = "closed"
  /\ x.contactor = "closed" /\ ~x.isCharging => ~x.ready
  /\ HasVentilation /\ x.state = "D2" => x.fan
  /\ x.raised \subseteq {"ChargingStarted"}

\* Moving between C2 and D2 keeps it, and the duty cycle.
LEMMA ChargingMoves ==
  ASSUME NEW x, Charging(x), NEW s \in {"C2", "D2"}
  PROVE  Charging(SetState(x, s)) /\ SetState(x, s).pwm = x.pwm
<1> DEFINE t == SetState(x, s)
<1>1. CASE x.state = s
  BY <1>1 DEF SetState
<1>2. CASE x.state # s
  <2>1. x \in J1772Type /\ t \in J1772Type
    BY SetStateType DEF Charging, States
  <2>2. /\ t.state = s /\ t.authNeeded = x.authNeeded /\ t.pwm = x.pwm
        /\ HasVentilation /\ s = "D2" => t.fan
        /\ IF t.ready
             THEN t.contactor = "closed" /\ t.isCharging /\ t.raised = x.raised \cup {"ChargingStarted"}
             ELSE t.contactor = x.contactor /\ t.isCharging = x.isCharging /\ t.raised = x.raised
    BY <1>2, <2>1, EnterCD2Facts DEF Kept
  <2> SUFFICES Charging(t) /\ t.pwm = x.pwm
    OBVIOUS
  <2> HIDE DEF t
  <2>3. CASE t.ready
    BY <2>1, <2>2, <2>3 DEF Charging
  <2>4. CASE ~t.ready
    <3>1. ~t.authNeeded /\ (t.isCharging => t.contactor = "closed")
      BY <2>2, <2>4 DEF Charging
    <3> QED
      BY <2>1, <2>2, <2>4, <3>1 DEF Charging
  <2> QED
    BY <2>3, <2>4
<1> QED
  BY <1>1, <1>2

\* So do the measurement and the update of the duty cycle.
LEMMA ChargingMeasures ==
  ASSUME NEW x, Charging(x), NEW in \in Inputs
  PROVE  /\ Charging(Advertise(Measure(x, in)))
         /\ Advertise(Measure(x, in)).pwm < PWM100_MIN_VALUE
<1> DEFINE m == Measure(x, in)
<1>1. in.load \in Nat
  BY Iec61851Assumption DEF Inputs
<1>2. x \in J1772Type
  BY DEF Charging
<1>3. /\ m \in J1772Type /\ m.state = x.state /\ m.authNeeded = x.authNeeded
      /\ m.isCharging = x.isCharging /\ m.contactor = x.contactor /\ m.ready = x.ready
      /\ m.fan = x.fan /\ m.raised = x.raised
  BY <1>1, <1>2, Iec61851Assumption DEF Measure, J1772Type
<1>4. Charging(m)
  BY <1>3 DEF Charging
<1> HIDE DEF m
<1>5. Advertise(m) \in J1772Type /\ Advertise(m).pwm < PWM100_MIN_VALUE
  BY <1>3, SteadyType
<1>6. /\ Advertise(m).state = m.state /\ Advertise(m).authNeeded = m.authNeeded
      /\ Advertise(m).fan = m.fan /\ Advertise(m).ready = m.ready
      /\ Advertise(m).contactor = m.contactor
      /\ Advertise(m).isCharging = m.isCharging /\ Advertise(m).raised = m.raised
  BY <1>3 DEF Advertise, J1772Type
<1>7. Charging(Advertise(m))
  BY <1>4, <1>5, <1>6 DEF Charging
<1> QED
  BY <1>5, <1>7 DEF m

\* A pass in state C2 or D2.
LEMMA HandleCD2Preserves ==
  ASSUME NEW r \in J1772Type, NEW in \in Inputs, NEW p \in BOOLEAN, NEW g \in BOOLEAN,
         StateInv(r, p, g), r.raised = {}, r.state \in {"C2", "D2"}
  PROVE  Preserved(r, in, p, g, HandleCD2(r, in))
<1> DEFINE v == IF r.state = "C2" /\ in.cp = "D" THEN SetState(r, "D2") ELSE r
           on == Advertise(Measure(v, in))
           m == IF in.cp = "C" /\ r.cp = "D" THEN SetState(on, "C2") ELSE on
<1>1. p /\ g /\ ~PollsAuth(r, in.cp)
  BY DEF PollsAuth
<1>2. Charging(r)
  BY DEF Charging
<1>3. Charging(v)
  BY <1>2, ChargingMoves
<1> HIDE DEF v
<1>4. Charging(on) /\ on.pwm < PWM100_MIN_VALUE
  BY <1>3, ChargingMeasures
<1> HIDE DEF on
<1>5. Charging(m) /\ m.pwm < PWM100_MIN_VALUE
  BY <1>4, ChargingMoves
<1> HIDE DEF m
<1>6. HandleCD2(r, in) =
        CASE in.cp = "A"          -> SetState(on, "A2")
          [] in.cp = "B"          -> SetState(on, "B2")
          [] in.cp \in {"C", "D"} ->
               IF ~m.ready \/ m.overCurrent
                 THEN Steady(SetState(m, IF m.state = "C2" THEN "C" ELSE "D"))
                 ELSE m
          [] in.cp = "F"          -> SetState(on, "F")
          [] OTHER                -> on
  BY DEF HandleCD2, v, on, m
<1>7. on \in J1772Type /\ on.state \in {"C2", "D2"} /\ ~on.authNeeded
      /\ on.raised \subseteq {"ChargingStarted"}
  BY <1>4 DEF Charging
<1>8. ASSUME NEW x, Charging(x), x.pwm < PWM100_MIN_VALUE
      PROVE  Preserved(r, in, p, g, x)
  BY <1>1, <1>8 DEF Charging
<1>9. CASE in.cp = "A"
  BY <1>1, <1>4, <1>6, <1>7, <1>9, EnterA2Facts, SetStateType DEF States, Kept
<1>10. CASE in.cp = "B"
  BY <1>1, <1>4, <1>6, <1>7, <1>10, EnterB2Facts, SetStateType DEF States, Kept
<1>11. CASE in.cp \in {"C", "D"}
  <2> DEFINE x == IF m.state = "C2" THEN "C" ELSE "D"
             t == SetState(m, x)
  <2>1. CASE ~m.ready \/ m.overCurrent
    <3>1. m \in J1772Type /\ m.state \in {"C2", "D2"} /\ x \in {"C", "D"}
      BY <1>5 DEF Charging
    <3>2. t \in J1772Type /\ Steady(t) \in J1772Type
      BY <3>1, SetStateType, SteadyType DEF States
    <3>3. /\ t.state = x /\ ~t.authNeeded /\ t.contactor = "open" /\ ~t.isCharging
          /\ t.raised = m.raised \cup {"ChargingStopped"}
      BY <3>1, <1>5, EnterCDFacts DEF Charging
    <3>4. m.raised \subseteq {"ChargingStarted"}
      BY <1>5 DEF Charging
    <3>5. HandleCD2(r, in) = Steady(t)
      BY <1>6, <1>11, <2>1
    <3> HIDE DEF t, x
    <3>6. /\ Steady(t).state = x /\ ~Steady(t).authNeeded /\ Steady(t).contactor = "open"
          /\ ~Steady(t).isCharging /\ Steady(t).pwm = PWM100_MAX_VALUE
          /\ Steady(t).raised = m.raised \cup {"ChargingStopped"}
      BY <3>2, <3>3 DEF Steady, J1772Type
    <3> QED
      BY <1>1, <3>1, <3>2, <3>4, <3>5, <3>6
  <2>2. CASE ~(~m.ready \/ m.overCurrent)
    <3>1. HandleCD2(r, in) = m
      BY <1>6, <1>11, <2>2
    <3> QED
      BY <1>5, <1>8, <3>1
  <2> QED
    BY <2>1, <2>2
<1>12. CASE in.cp = "F"
  BY <1>1, <1>6, <1>7, <1>12, EnterFaultFacts, SetStateType DEF States
<1>13. CASE in.cp \notin {"A", "B", "C", "D", "F"}
  <2>1. HandleCD2(r, in) = on
    BY <1>6, <1>13
  <2> QED
    BY <1>4, <1>8, <2>1
<1> QED
  BY <1>9, <1>10, <1>11, <1>12, <1>13

\* A pass in an error state.
LEMMA HandleEFPreserves ==
  ASSUME NEW r \in J1772Type, NEW in \in Inputs, NEW p \in BOOLEAN, NEW g \in BOOLEAN,
         StateInv(r, p, g), r.raised = {}, r.state \in {"E", "F"}
  PROVE  Preserved(r, in, p, g, HandleEF(r, in))
<1>0. r.contactor = "open" /\ Steady(r) \in J1772Type
  BY SteadyType DEF J1772Type
<1>1. CASE in.cp = "A"
  <2>1. SetState(r, "A") \in J1772Type /\ Steady(SetState(r, "A")) \in J1772Type
    BY SetStateType, SteadyType DEF States
  <2> QED
    BY <1>0, <1>1, <2>1, EnterAFacts DEF HandleEF, Steady, Kept, PollsAuth, J1772Type
<1>2. CASE in.cp = "F"
  <2>1. SetState(r, "F") \in J1772Type /\ Steady(SetState(r, "F")) \in J1772Type
    BY SetStateType, SteadyType DEF States
  <2>2. CASE r.state = "F"
    BY <1>0, <1>2, <2>2 DEF HandleEF, Steady, PollsAuth, J1772Type, SetState
  <2>3. CASE r.state = "E"
    BY <1>2, <2>1, <2>3, EnterFaultFacts DEF HandleEF, Steady, PollsAuth, J1772Type
  <2> QED
    BY <2>2, <2>3
<1>3. CASE in.cp \notin {"A", "F"}
  BY <1>0, <1>3 DEF HandleEF, Steady, PollsAuth, J1772Type
<1> QED
  BY <1>1, <1>2, <1>3

\* A pass before the pilot was first read.
LEMMA HandleLastPreserves ==
  ASSUME NEW r \in J1772Type, NEW in \in Inputs, NEW p \in BOOLEAN, NEW g \in BOOLEAN,
         StateInv(r, p, g), r.raised = {}, r.state \in {"Last"}
  PROVE  Preserved(r, in, p, g, HandleLast(r, in))
<1>1. r.contactor = "open"
  BY DEF J1772Type
<1>2. CASE in.cp # "Unknown"
  BY <1>1, <1>2, EnterAFacts, SetStateType DEF HandleLast, PollsAuth, States, Kept
<1>3. CASE in.cp = "Unknown"
  BY <1>3 DEF HandleLast, PollsAuth
<1> QED
  BY <1>2, <1>3

\* So a whole pass keeps it, from any state and whatever it read.
LEMMA LoopPreserves ==
  ASSUME NEW r \in J1772Type, NEW in \in Inputs, NEW p \in BOOLEAN, NEW g \in BOOLEAN,
         StateInv(r, p, g)
  PROVE  Preserved(r, in, p, g, LoopEvse(r, in))
<1> DEFINE q == [r EXCEPT !.raised = {}, !.overCurrent = @ /\ ~in.expired]
           h == CASE q.state = "A"            -> HandleA(q, in)
                  [] q.state = "A2"           -> HandleA2(q, in)
                  [] q.state = "B"            -> HandleB(q, in)
                  [] q.state = "B2"           -> HandleB2(q, in)
                  [] q.state \in {"C", "D"}   -> HandleCD(q, in)
                  [] q.state \in {"C2", "D2"} -> HandleCD2(q, in)
                  [] q.state \in {"E", "F"}   -> HandleEF(q, in)
                  [] OTHER                    -> HandleLast(q, in)
           t == [h EXCEPT !.cp = in.cp]
<1>1. /\ q \in J1772Type /\ q.raised = {} /\ q.state = r.state /\ q.pwm = r.pwm
      /\ q.authNeeded = r.authNeeded /\ q.ready = r.ready /\ q.fan = r.fan
      /\ q.contactor = r.contactor /\ q.isCharging = r.isCharging
  <2> HIDE DEF StateInv, Preserved, h, t
  <2>1. (r.overCurrent /\ ~in.expired) \in BOOLEAN
    OBVIOUS
  <2>2. ASSUME NEW e \in BOOLEAN PROVE [r EXCEPT !.raised = {}, !.overCurrent = e] \in J1772Type
    BY DEF J1772Type
  <2>3. q \in J1772Type
    BY <2>1, <2>2
  <2> QED
    BY <2>3 DEF J1772Type
<1>2. LoopEvse(r, in) = t
  BY DEF LoopEvse
<1>3. StateInv(q, p, g)
  BY <1>1
<1> HIDE DEF q
<1>4. Preserved(q, in, p, g, h)
  <2> HIDE DEF Preserved, StateInv
  <2>1. q.state \in States
    BY <1>1 DEF J1772Type
  <2> QED
    BY <1>1, <1>3, <2>1, HandleAPreserves, HandleA2Preserves, HandleBPreserves,
       HandleB2Preserves, HandleCDPreserves, HandleCD2Preserves, HandleEFPreserves,
       HandleLastPreserves DEF States
<1> HIDE DEF h
<1>5. /\ t \in J1772Type /\ t.raised = h.raised /\ t.state = h.state /\ t.pwm = h.pwm
      /\ t.authNeeded = h.authNeeded /\ t.ready = h.ready /\ t.fan = h.fan
      /\ t.contactor = h.contactor /\ t.isCharging = h.isCharging
  <2>1. h \in J1772Type
    BY <1>4
  <2> QED
    BY <2>1 DEF J1772Type, Inputs
<1> HIDE DEF t
<1>6. PollsAuth(r, in.cp) <=> PollsAuth(q, in.cp)
  BY <1>1 DEF PollsAuth
<1>7. Preserved(r, in, p, g, t)
  BY <1>1, <1>4, <1>5, <1>6
<1> QED
  BY <1>2, <1>7

\* Asking the stack to stop only clears ready_to_charge.
LEMMA StopInv ==
  ASSUME NEW r \in J1772Type, NEW p \in BOOLEAN, NEW g \in BOOLEAN, StateInv(r, p, g)
  PROVE  /\ StopCharging(r, TRUE) \in J1772Type
         /\ StateInv(StopCharging(r, TRUE), p, g)
         /\ StopCharging(r, TRUE).contactor = r.contactor
BY DEF StopCharging, J1772Type
-----------------------------------------------------------------------------
(* How soon a pass reacts.  UnpluggedSettles and FaultCutsPower say that   *)
(* the stack settles in the end; these say in how many passes.             *)

\* The passes that the stack needs to announce that the EV left, and to enter F.
PassesToA(s) == IF s = "A" THEN 0 ELSE IF s \in {"B2", "C2", "D2"} THEN 2 ELSE 1
PassesToF(s) == IF s = "F" THEN 0 ELSE IF s = "Last" THEN 2 ELSE 1

LeavesInTime(r, t) ==
  t.contactor = "open" /\ (t.state = "A" \/ PassesToA(t.state) < PassesToA(r.state))
FaultsInTime(r, t) ==
  t.contactor = "open" /\ (t.state = "F" \/ PassesToF(t.state) < PassesToF(r.state))
StopsInTime(r, t) ==
  t.contactor = "open" \/ (r.state = "B2" /\ t.state \in {"C2", "D2"} /\ ~t.ready)

\* What the handlers make of a pass that finds the EV gone, a fault, a stop or a current
\* above the limit.
Reacts(r, in, t) ==
  /\ in.cp = "A" => LeavesInTime(r, t)
  /\ in.cp = "F" => FaultsInTime(r, t)
  /\ in.cp \in {"C", "D"} /\ r.contactor = "closed" /\ ~r.ready => StopsInTime(r, t)
  /\ in.cp \in {"C", "D"} /\ r.state # "B2" /\ t.overCurrent
       => t.contactor = "open"

LEMMA RestReacts ==
  ASSUME NEW r \in J1772Type, NEW in \in Inputs, NEW p \in BOOLEAN, NEW g \in BOOLEAN,
         StateInv(r, p, g), r.state \in {"A", "A2", "B", "E", "F", "Last"}
  PROVE  /\ r.state = "A" => Reacts(r, in, HandleA(r, in))
         /\ r.state = "A2" => Reacts(r, in, HandleA2(r, in))
         /\ r.state = "B" => Reacts(r, in, HandleB(r, in))
         /\ r.state \in {"E", "F"} => Reacts(r, in, HandleEF(r, in))
         /\ r.state = "Last" => Reacts(r, in, HandleLast(r, in))
<1> USE DEF Reacts, LeavesInTime, FaultsInTime, PassesToA, PassesToF
<1>1. r.contactor = "open" /\ r.state \in States
  BY DEF J1772Type
<1>2. ASSUME NEW s \in {"A", "F"}, r.state # s
      PROVE  /\ SetState(r, s).state = s /\ SetState(r, s).contactor = "open"
             /\ Steady(SetState(r, s)).state = s /\ Steady(SetState(r, s)).contactor = "open"
  BY <1>2, EnterAFacts, EnterFaultFacts, SetStateType DEF Steady, J1772Type, States
<1>3. SetState(r, r.state) = r /\ Steady(r).state = r.state /\ Steady(r).contactor = "open"
  BY <1>1 DEF SetState, Steady, J1772Type
<1>4. CASE r.state = "A"
  BY <1>1, <1>2, <1>4 DEF HandleA
<1>5. CASE r.state = "A2"
  BY <1>1, <1>2, <1>5 DEF HandleA2
<1>6. CASE r.state = "B"
  BY <1>1, <1>2, <1>6 DEF HandleB
<1>7. CASE r.state \in {"E", "F"}
  BY <1>1, <1>2, <1>3, <1>7 DEF HandleEF
<1>8. CASE r.state = "Last"
  BY <1>1, <1>2, <1>8 DEF HandleLast
<1> QED
  BY <1>4, <1>5, <1>6, <1>7, <1>8

LEMMA B2Reacts ==
  ASSUME NEW r \in J1772Type, NEW in \in Inputs, r.state = "B2"
  PROVE  Reacts(r, in, HandleB2(r, in))
<1> USE DEF Reacts, LeavesInTime, FaultsInTime, StopsInTime, PassesToA, PassesToF
<1>1. CASE in.cp = "A"
  BY <1>1, EnterA2Facts DEF HandleB2
<1>2. CASE in.cp = "F"
  BY <1>2, EnterFaultFacts DEF HandleB2
<1>3. CASE in.cp \in {"C", "D"}
  <2>1. ASSUME NEW s \in {"C2", "D2"}, ~r.ready
        PROVE  SetState(r, s).state = s /\ ~SetState(r, s).ready
    BY <2>1, Iec61851Assumption DEF J1772Type, SetState, EnterCD2, EnablePower, StopCharging
  <2> QED
    BY <1>3, <2>1 DEF HandleB2
<1>4. CASE in.cp \notin {"A", "F", "C", "D"}
  BY <1>4
<1> QED
  BY <1>1, <1>2, <1>3, <1>4

LEMMA CDReacts ==
  ASSUME NEW r \in J1772Type, NEW in \in Inputs, NEW p \in BOOLEAN, NEW g \in BOOLEAN,
         StateInv(r, p, g), r.state \in {"C", "D"}
  PROVE  Reacts(r, in, HandleCD(r, in))
<1> USE DEF Reacts, LeavesInTime, FaultsInTime, StopsInTime, PassesToA, PassesToF
<1>1. CASE in.cp = "A"
  BY <1>1, EnterAFacts DEF HandleCD
<1>2. CASE in.cp = "F"
  BY <1>2, EnterFaultFacts DEF HandleCD
<1>3. CASE in.cp \in {"C", "D"}
  <2> DEFINE m == SetState(r, in.cp)
  <2>1. r.contactor = "open" /\ r.pwm = PWM100_MAX_VALUE
    BY DEF J1772Type
  <2>2. m \in J1772Type /\ m.state = in.cp /\ m.contactor = "open"
    <3>1. CASE r.state = in.cp
      BY <2>1, <3>1 DEF SetState
    <3>2. CASE r.state # in.cp
      BY <1>3, <2>1, <3>2, EnterCDFacts, SetStateType DEF States
    <3> QED  BY <3>1, <3>2
  <2> HIDE DEF m
  <2>3. HandleCD(r, in) = IF m.ready /\ ~m.overCurrent
                            THEN Advertise(SetState(m, IF m.state = "C" THEN "C2" ELSE "D2"))
                            ELSE m
    BY <1>3, <2>1 DEF HandleCD, m
  <2>4. CASE m.ready /\ ~m.overCurrent
    <3> DEFINE s == IF m.state = "C" THEN "C2" ELSE "D2"
               u == SetState(m, s)
    <3>1. u \in J1772Type /\ u.overCurrent = m.overCurrent
      <4>1. s \in {"C2", "D2"} /\ m.state # s
        BY <1>3, <2>2
      <4> HIDE DEF s
      <4> QED  BY <2>2, <4>1, EnterCD2Facts, SetStateType DEF States
    <3> HIDE DEF u
    <3>2. ~Advertise(u).overCurrent
      BY <2>4, <3>1 DEF Advertise, J1772Type
    <3>3. HandleCD(r, in) = Advertise(u)
      BY <2>3, <2>4 DEF u
    <3> QED  BY <1>3, <2>1, <3>2, <3>3
  <2>5. CASE ~(m.ready /\ ~m.overCurrent)
    BY <1>3, <2>2, <2>3, <2>5
  <2> QED  BY <2>4, <2>5
<1>4. CASE in.cp \notin {"A", "F", "C", "D"}
  BY <1>4
<1> QED
  BY <1>1, <1>2, <1>3, <1>4

\* Neither a move between C2 and D2 nor a measurement makes a stopped stack ready.
LEMMA StaysStopped ==
  ASSUME NEW x \in J1772Type, ~x.ready, NEW s \in {"C2", "D2"}, NEW in \in Inputs
  PROVE  ~SetState(x, s).ready /\ ~Advertise(Measure(x, in)).ready
<1>1. ~SetState(x, s).ready
  BY Iec61851Assumption DEF J1772Type, SetState, EnterCD2, EnablePower, StopCharging
<1>2. ~Advertise(Measure(x, in)).ready
  BY DEF J1772Type, Advertise, Measure
<1> QED
  BY <1>1, <1>2

LEMMA CD2Reacts ==
  ASSUME NEW r \in J1772Type, NEW in \in Inputs, NEW p \in BOOLEAN, NEW g \in BOOLEAN,
         StateInv(r, p, g), r.raised = {}, r.state \in {"C2", "D2"}
  PROVE  Reacts(r, in, HandleCD2(r, in))
<1> USE DEF Reacts, LeavesInTime, FaultsInTime, StopsInTime, PassesToA, PassesToF
<1> DEFINE v == IF r.state = "C2" /\ in.cp = "D" THEN SetState(r, "D2") ELSE r
           on == Advertise(Measure(v, in))
           m == IF in.cp = "C" /\ r.cp = "D" THEN SetState(on, "C2") ELSE on
<1>1. Charging(r)
  BY DEF Charging
<1>2. Charging(v) /\ (~r.ready => ~v.ready)
  BY <1>1, ChargingMoves, StaysStopped
<1> HIDE DEF v
<1>3. Charging(on) /\ (~v.ready => ~on.ready)
  BY <1>2, ChargingMeasures, StaysStopped DEF Charging
<1> HIDE DEF on
<1>4. Charging(m) /\ (~on.ready => ~m.ready)
  BY <1>3, ChargingMoves, StaysStopped DEF Charging
<1> HIDE DEF m
<1>5. HandleCD2(r, in) =
        CASE in.cp = "A"          -> SetState(on, "A2")
          [] in.cp = "B"          -> SetState(on, "B2")
          [] in.cp \in {"C", "D"} ->
               IF ~m.ready \/ m.overCurrent
                 THEN Steady(SetState(m, IF m.state = "C2" THEN "C" ELSE "D"))
                 ELSE m
          [] in.cp = "F"          -> SetState(on, "F")
          [] OTHER                -> on
  BY DEF HandleCD2, v, on, m
<1>6. on \in J1772Type /\ on.state \in {"C2", "D2"}
  BY <1>3 DEF Charging
<1>7. CASE in.cp = "A"
  BY <1>5, <1>6, <1>7, EnterA2Facts
<1>8. CASE in.cp = "F"
  BY <1>5, <1>6, <1>8, EnterFaultFacts
<1>9. CASE in.cp \in {"C", "D"}
  <2>1. CASE ~m.ready \/ m.overCurrent
    <3> DEFINE x == IF m.state = "C2" THEN "C" ELSE "D"
               t == SetState(m, x)
    <3>1. m \in J1772Type /\ m.state \in {"C2", "D2"} /\ x \in {"C", "D"}
      BY <1>4 DEF Charging
    <3>2. t \in J1772Type /\ t.contactor = "open"
      BY <3>1, EnterCDFacts, SetStateType DEF States
    <3>3. HandleCD2(r, in) = Steady(t)
      BY <1>5, <1>9, <2>1
    <3> HIDE DEF t
    <3>4. Steady(t).contactor = "open"
      BY <3>2 DEF Steady, J1772Type
    <3> QED
      BY <1>9, <3>3, <3>4
  <2>2. CASE m.ready /\ ~m.overCurrent
    <3>1. HandleCD2(r, in) = m /\ r.ready
      BY <1>2, <1>3, <1>4, <1>5, <1>9, <2>2
    <3> QED
      BY <1>9, <2>2, <3>1
  <2> QED
    BY <2>1, <2>2
<1>10. CASE in.cp \notin {"A", "C", "D", "F"}
  BY <1>10
<1> QED
  BY <1>7, <1>8, <1>9, <1>10

LEMMA LoopReacts ==
  ASSUME NEW r \in J1772Type, NEW in \in Inputs, NEW p \in BOOLEAN, NEW g \in BOOLEAN,
         StateInv(r, p, g)
  PROVE  Reacts(r, in, LoopEvse(r, in))
<1> DEFINE q == [r EXCEPT !.raised = {}, !.overCurrent = @ /\ ~in.expired]
           h == CASE q.state = "A"            -> HandleA(q, in)
                  [] q.state = "A2"           -> HandleA2(q, in)
                  [] q.state = "B"            -> HandleB(q, in)
                  [] q.state = "B2"           -> HandleB2(q, in)
                  [] q.state \in {"C", "D"}   -> HandleCD(q, in)
                  [] q.state \in {"C2", "D2"} -> HandleCD2(q, in)
                  [] q.state \in {"E", "F"}   -> HandleEF(q, in)
                  [] OTHER                    -> HandleLast(q, in)
           t == [h EXCEPT !.cp = in.cp]
<1>1. /\ q \in J1772Type /\ q.raised = {} /\ q.state = r.state /\ q.pwm = r.pwm
      /\ q.authNeeded = r.authNeeded /\ q.ready = r.ready /\ q.fan = r.fan
      /\ q.contactor = r.contactor /\ q.isCharging = r.isCharging
  <2> HIDE DEF StateInv, h, t
  <2>1. (r.overCurrent /\ ~in.expired) \in BOOLEAN
    OBVIOUS
  <2>2. ASSUME NEW e \in BOOLEAN PROVE [r EXCEPT !.raised = {}, !.overCurrent = e] \in J1772Type
    BY DEF J1772Type
  <2>3. q \in J1772Type
    BY <2>1, <2>2
  <2> QED
    BY <2>3 DEF J1772Type
<1>2. LoopEvse(r, in) = t
  BY DEF LoopEvse
<1>3. StateInv(q, p, g) /\ q.state \in States
  BY <1>1 DEF J1772Type
<1> HIDE DEF q, StateInv
<1>4. Reacts(q, in, h)
  BY <1>1, <1>3, RestReacts, B2Reacts, CDReacts, CD2Reacts DEF States
<1>5. h \in J1772Type
  <2> HIDE DEF Preserved
  <2>1. Preserved(q, in, p, g, h)
    BY <1>1, <1>3, HandleAPreserves, HandleA2Preserves, HandleBPreserves,
       HandleB2Preserves, HandleCDPreserves, HandleCD2Preserves, HandleEFPreserves,
       HandleLastPreserves DEF States
  <2> QED
    BY <2>1 DEF Preserved
<1> HIDE DEF h
<1>6. /\ t.state = h.state /\ t.contactor = h.contactor /\ t.ready = h.ready
      /\ t.overCurrent = h.overCurrent
  BY <1>5 DEF J1772Type
<1> HIDE DEF t
<1>7. Reacts(r, in, t)
  BY <1>1, <1>4, <1>6 DEF Reacts, LeavesInTime, FaultsInTime, StopsInTime
<1> QED
  BY <1>2, <1>7

HIDE DEF Preserved, Announced, StateInv, SessionOfState, NextPlugged, NextGranted,
         PWM100_MIN_VALUE, PWM100_MAX_VALUE
=============================================================================
