---------------------------- MODULE J1772_proofs ----------------------------
(***************************************************************************)
(* Proofs about the charging task.  The argument is one induction: every   *)
(* pass of the loop keeps StateInv, which ties the state of the stack to   *)
(* the contactor, the duty cycle and the session.  It is proved handler by *)
(* handler from lemmas that say what SetState does for each target state.  *)
(***************************************************************************)
EXTENDS J1772, Iec61851_proofs

USE DEF Preserved, Announced, StateInv, SessionOfState, NextPlugged, NextGranted,
        PWM100_MIN_VALUE, PWM100_MAX_VALUE

-----------------------------------------------------------------------------
(* The theorems.                                                           *)

\* The initial states satisfy the inductive invariant.
LEMMA InitInv == Init => IInv
<1>1. InitStruct \in J1772Type
  BY DEF InitStruct, J1772Type, States, CpStates, DEFAULT_MAX_CURRENT
<1>2. StateInv(InitStruct, FALSE, FALSE)
  BY DEF InitStruct
<1>3. "None" \in Answers /\ "pass" \in PCs
  BY DEF Answers, PCs
<1> SUFFICES ASSUME Init PROVE IInv
  OBVIOUS
<1> HIDE DEF StateInv
<1>4. TypeOK
  BY <1>1, <1>3 DEF Init, TypeOK
<1>5. StateInv(j, plugged, granted)
  BY <1>2 DEF Init
<1> QED
  BY <1>4, <1>5 DEF IInv

\* Every step keeps the inductive invariant.
LEMMA NextInv == IInv /\ [Next]_vars => IInv'
<1> SUFFICES ASSUME IInv, [Next]_vars PROVE IInv'
  OBVIOUS
<1> HIDE DEF StateInv, Preserved
<1> USE DEF IInv
<1>1. CASE Pass
  <2>1. PICK due \in BOOLEAN, expired \in BOOLEAN :
          j' = LoopEvse(j, [cp |-> line, answer |-> answer, load |-> load,
                            due |-> due, expired |-> expired])
    BY <1>1 DEF Pass
  <2> DEFINE in == [cp |-> line, answer |-> answer, load |-> load,
                    due |-> due, expired |-> expired]
  <2>2. in \in Inputs
    BY DEF Inputs, TypeOK
  <2>3. Preserved(j, in, plugged, granted, j')
    BY <2>1, <2>2, LoopPreserves DEF TypeOK
  <2>4. /\ plugged' = NextPlugged(j', plugged)
        /\ granted' = NextGranted(j', j, in, granted)
    BY <1>1 DEF Pass
  <2>5. j' \in J1772Type /\ StateInv(j', plugged', granted')
    BY <2>3, <2>4 DEF Preserved
  <2>6. plugged' \in BOOLEAN /\ granted' \in BOOLEAN /\ stopped' \in BOOLEAN
    BY <1>1 DEF Pass
  <2>7. pc' \in PCs /\ requests' = requests /\ line' = line /\ load' = load /\ answer' \in Answers
    BY <1>1 DEF Pass, PCs, Answers, TypeOK
  <2> QED
    BY <2>5, <2>6, <2>7 DEF TypeOK
<1>2. CASE WaitEvent
  <2>1. j' \in J1772Type /\ StateInv(j', plugged, granted) /\ stopped' \in BOOLEAN
    BY <1>2, StopInv DEF WaitEvent, Stop, TypeOK
  <2> QED
    BY <1>2, <2>1 DEF WaitEvent, TypeOK, outside, PCs
<1>3. ASSUME NEW e \in Requests, SetEvent(e) PROVE IInv'
  BY <1>3 DEF SetEvent, TypeOK, outside, history
<1>4. CASE RemoteStop
  <2>1. j' \in J1772Type /\ StateInv(j', plugged, granted) /\ stopped' \in BOOLEAN
    BY <1>4, StopInv DEF RemoteStop, Stop, TypeOK
  <2> QED
    BY <1>4, <2>1 DEF RemoteStop, TypeOK, outside
<1>5. ASSUME NEW amps \in MaxCurrents, ChangeMaxCurrent(amps) PROVE IInv'
  <2>1. amps \in Nat
    BY Iec61851Assumption
  <2>2. j' \in J1772Type /\ StateInv(j', plugged, granted)
    BY <1>5, <2>1 DEF ChangeMaxCurrent, SetMaxCurrent, TypeOK, J1772Type, StateInv
  <2> QED
    BY <1>5, <2>2 DEF ChangeMaxCurrent, TypeOK, outside, history
<1>6. ASSUME NEW s \in CpStates, MovePilot(s) PROVE IInv'
  BY <1>6 DEF MovePilot, TypeOK, task, history
<1>7. ASSUME NEW l \in Loads, DrawLoad(l) PROVE IInv'
  BY <1>7 DEF DrawLoad, TypeOK, task, history
<1>8. ASSUME NEW a \in Answers \ {"None"}, Reply(a) PROVE IInv'
  BY <1>8 DEF Reply, TypeOK, task, history
<1>9. CASE UNCHANGED vars
  BY <1>9 DEF vars, task, outside, history, TypeOK
<1> QED
  BY <1>1, <1>2, <1>3, <1>4, <1>5, <1>6, <1>7, <1>8, <1>9 DEF Next

\* The inductive invariant holds in every reachable state.
THEOREM Invariance == Spec => []IInv
BY InitInv, NextInv, PTL DEF Spec

\* Type correctness of the charging task.
THEOREM TypeCorrect == Spec => []TypeOK
<1>1. IInv => TypeOK
  BY DEF IInv
<1> QED
  BY <1>1, Invariance, PTL

\* Power is on only for an accepted EV, in the states that may supply it.
THEOREM PowerIsGranted == Spec => []PowerOnlyWhenGranted
<1>1. IInv => PowerOnlyWhenGranted
  BY DEF IInv, PowerOnlyWhenGranted, PowerOn
<1> QED
  BY <1>1, Invariance, PTL

\* The pilot shows what the state of the stack says.
THEOREM PilotIsRight == Spec => []PilotMatchesState
<1>1. IInv => PilotMatchesState
  BY DEF IInv, PilotMatchesState
<1> QED
  BY <1>1, Invariance, PTL

\* What the stack reports as charging agrees with the contactor.
THEOREM ReportIsRight == Spec => []ReportMatchesPower
<1>1. IInv => ReportMatchesPower
  BY DEF IInv, ReportMatchesPower, PowerOn
<1> QED
  BY <1>1, Invariance, PTL

\* With a fan fitted, an EV that asks for ventilation is not supplied without it.
THEOREM PowerIsVentilated == Spec => []VentilatedPower
<1>1. IInv => VentilatedPower
  BY DEF IInv, VentilatedPower, PowerOn
<1> QED
  BY <1>1, Invariance, PTL

-----------------------------------------------------------------------------
(* The task implements the abstract session.                               *)

\* A pass is a step of the session, or leaves it as it is.
LEMMA PassRefines == IInv /\ Pass => [Session!Next]_Session!vars
<1> SUFFICES ASSUME IInv, Pass PROVE [Session!Next]_Session!vars
  OBVIOUS
<1> HIDE DEF Preserved
<1>1. PICK due \in BOOLEAN, expired \in BOOLEAN :
        j' = LoopEvse(j, [cp |-> line, answer |-> answer, load |-> load,
                          due |-> due, expired |-> expired])
  BY DEF Pass
<1> DEFINE in == [cp |-> line, answer |-> answer, load |-> load,
                  due |-> due, expired |-> expired]
<1>2. in \in Inputs
  BY DEF Inputs, TypeOK, IInv
<1>3. Preserved(j, in, plugged, granted, j')
  BY <1>1, <1>2, LoopPreserves DEF TypeOK, IInv
<1>4. /\ plugged' = NextPlugged(j', plugged)
      /\ granted' = NextGranted(j', j, in, granted)
  BY DEF Pass
<1> HIDE DEF in, Announced, StateInv, NextPlugged, NextGranted
<1>a. Announced(j, in, j') /\ StateInv(j', plugged', granted') /\ j' \in J1772Type
  BY <1>3, <1>4 DEF Preserved
<1>b. /\ j.contactor \in {"open", "closed"} /\ j'.contactor \in {"open", "closed"}
      /\ plugged \in BOOLEAN /\ granted \in BOOLEAN
  BY <1>a DEF IInv, TypeOK, J1772Type
<1>c. plugged' \in BOOLEAN /\ granted' \in BOOLEAN
  BY <1>4 DEF NextPlugged, NextGranted
<1>5. /\ Announced(j, in, j') /\ StateInv(j', plugged', granted')
      /\ j.contactor \in {"open", "closed"} /\ j'.contactor \in {"open", "closed"}
      /\ plugged \in BOOLEAN /\ granted \in BOOLEAN
      /\ plugged' \in BOOLEAN /\ granted' \in BOOLEAN
  BY <1>a, <1>b, <1>c
<1> USE DEF Announced, StateInv, NextPlugged, NextGranted
<1> USE DEF Session!Next, Session!vars, Session!PlugIn, Session!Grant, Session!PowerOn,
            Session!PowerOff, Session!Leave, PowerOn
<1>6. CASE "EvDisconnected" \in j'.raised
  <2>1. j.contactor = "open" /\ j'.contactor = "open"
    BY <1>5, <1>6
  <2>2. plugged' = FALSE /\ granted' = FALSE
    BY <1>4, <1>6
  <2> QED
    BY <2>1, <2>2
<1>7. CASE "EvConnected" \in j'.raised
  <2>1. /\ j.state = "A" /\ ~plugged /\ ~granted /\ ~PollsAuth(j, in.cp)
        /\ j.contactor = "open" /\ "EvDisconnected" \notin j'.raised
    BY <1>5, <1>7 DEF IInv, PollsAuth
  <2>2. plugged' = TRUE /\ granted' = FALSE
    BY <1>4, <1>7, <2>1
  <2>3. j'.contactor = "open"
    BY <1>5, <2>2
  <2> QED
    BY <2>1, <2>2, <2>3
<1>8. CASE "EvDisconnected" \notin j'.raised /\ "EvConnected" \notin j'.raised
  <2>1. plugged' = plugged
    BY <1>4, <1>8, <1>b DEF NextPlugged
  <2>2. CASE PollsAuth(j, in.cp) /\ in.answer = "Accept"
    <3>1. j.contactor = "open" /\ j'.contactor = "open" /\ plugged /\ granted' = TRUE
      BY <1>4, <1>5, <1>8, <2>2 DEF IInv, PollsAuth
    <3> QED
      BY <2>1, <3>1
  <2>3. CASE ~(PollsAuth(j, in.cp) /\ in.answer = "Accept")
    <3>1. granted' = granted
      BY <1>4, <1>8, <1>b, <2>3 DEF NextGranted
    <3>2. j'.contactor = "closed" => plugged /\ granted
      BY <1>5, <2>1, <3>1
    <3> QED
      BY <1>5, <2>1, <3>1, <3>2
  <2> QED
    BY <2>2, <2>3
<1> QED
  BY <1>6, <1>7, <1>8

\* The charging task implements EvSession: its contactor is only closed inside a
\* granted session, and a session only ends with the contactor open.
THEOREM ImplementsSession == Spec => SessionSpec
<1>1. Init => Session!Init
  BY DEF Init, Session!Init, InitStruct, PowerOn
<1>2. IInv /\ [Next]_vars => [Session!Next]_Session!vars
  <2> SUFFICES ASSUME IInv, [Next]_vars PROVE [Session!Next]_Session!vars
    OBVIOUS
  <2> HIDE DEF StateInv
  <2> USE DEF Session!vars, PowerOn
  <2>1. CASE Pass
    BY <2>1, PassRefines
  <2>2. CASE WaitEvent
    BY <2>2, StopInv DEF WaitEvent, Stop, IInv, TypeOK
  <2>3. ASSUME NEW e \in Requests, SetEvent(e) PROVE UNCHANGED Session!vars
    BY <2>3 DEF SetEvent, history
  <2>4. CASE RemoteStop
    BY <2>4, StopInv DEF RemoteStop, Stop, IInv, TypeOK
  <2>5. ASSUME NEW amps \in MaxCurrents, ChangeMaxCurrent(amps) PROVE UNCHANGED Session!vars
    BY <2>5 DEF ChangeMaxCurrent, SetMaxCurrent, history, IInv, TypeOK, J1772Type
  <2>6. ASSUME NEW s \in CpStates, MovePilot(s) PROVE UNCHANGED Session!vars
    BY <2>6 DEF MovePilot, task, history
  <2>7. ASSUME NEW l \in Loads, DrawLoad(l) PROVE UNCHANGED Session!vars
    BY <2>7 DEF DrawLoad, task, history
  <2>8. ASSUME NEW a \in Answers \ {"None"}, Reply(a) PROVE UNCHANGED Session!vars
    BY <2>8 DEF Reply, task, history
  <2>9. CASE UNCHANGED vars
    BY <2>9 DEF vars, task, history
  <2> QED
    BY <2>1, <2>2, <2>3, <2>4, <2>5, <2>6, <2>7, <2>8, <2>9 DEF Next
<1> QED
  BY <1>1, <1>2, Invariance, PTL DEF Spec, SessionSpec, Session!Spec

-----------------------------------------------------------------------------
(* How soon the task reacts.                                               *)

LEMMA PassReacts ==
  ASSUME IInv, Pass
  PROVE  \E in \in Inputs : in.cp = line /\ Reacts(j, in, j')
<1> HIDE DEF StateInv
<1>1. PICK due \in BOOLEAN, expired \in BOOLEAN :
        j' = LoopEvse(j, [cp |-> line, answer |-> answer, load |-> load,
                          due |-> due, expired |-> expired])
  BY DEF Pass
<1> DEFINE in == [cp |-> line, answer |-> answer, load |-> load,
                  due |-> due, expired |-> expired]
<1>2. in \in Inputs /\ in.cp = line
  BY DEF Inputs, TypeOK, IInv
<1>3. Reacts(j, in, j')
  BY <1>1, <1>2, LoopReacts DEF TypeOK, IInv
<1> QED
  BY <1>2, <1>3

\* Between passes nothing moves the stack or the contactor.
LEMMA OthersLeaveState ==
  ASSUME IInv, [Next]_vars, ~Pass
  PROVE  j'.state = j.state /\ j'.contactor = j.contactor
<1> USE DEF IInv, TypeOK
<1> HIDE DEF StateInv
<1>1. CASE WaitEvent \/ RemoteStop
  BY <1>1 DEF WaitEvent, RemoteStop, Stop, StopCharging, J1772Type
<1>2. ASSUME NEW e \in Requests, SetEvent(e) PROVE UNCHANGED j
  BY <1>2 DEF SetEvent
<1>3. ASSUME NEW amps \in MaxCurrents, ChangeMaxCurrent(amps)
      PROVE  j'.state = j.state /\ j'.contactor = j.contactor
  BY <1>3 DEF ChangeMaxCurrent, SetMaxCurrent, J1772Type
<1>4. ASSUME NEW s \in CpStates, MovePilot(s) PROVE UNCHANGED j
  BY <1>4 DEF MovePilot, task
<1>5. ASSUME NEW l \in Loads, DrawLoad(l) PROVE UNCHANGED j
  BY <1>5 DEF DrawLoad, task
<1>6. ASSUME NEW a \in Answers \ {"None"}, Reply(a) PROVE UNCHANGED j
  BY <1>6 DEF Reply, task
<1>7. CASE UNCHANGED vars
  BY <1>7 DEF vars, task
<1> QED
  BY <1>1, <1>2, <1>3, <1>4, <1>5, <1>6, <1>7 DEF Next

\* An EV that left, and a pilot fault: the first pass of Loop_EVSE that reads it opens the
\* contactor, and the second at the latest is in A, respectively F; whatever else runs
\* between passes neither moves the state nor closes the contactor.
SettlesInTwoPasses ==
  [][/\ Pass /\ line = "A" =>
          ~PowerOn' /\ (j'.state = "A" \/ PassesToA(j'.state) < PassesToA(j.state))
     /\ Pass /\ line = "F" =>
          ~PowerOn' /\ (j'.state = "F" \/ PassesToF(j'.state) < PassesToF(j.state))
     /\ ~Pass => j'.state = j.state /\ (PowerOn' <=> PowerOn)]_vars
THEOREM SettlesSoon == Spec => SettlesInTwoPasses
<1>1. IInv /\ [Next]_vars =>
        [/\ Pass /\ line = "A" =>
              ~PowerOn' /\ (j'.state = "A" \/ PassesToA(j'.state) < PassesToA(j.state))
         /\ Pass /\ line = "F" =>
              ~PowerOn' /\ (j'.state = "F" \/ PassesToF(j'.state) < PassesToF(j.state))
         /\ ~Pass => j'.state = j.state /\ (PowerOn' <=> PowerOn)]_vars
  <2> SUFFICES ASSUME IInv, [Next]_vars
      PROVE  /\ Pass /\ line = "A" =>
                  ~PowerOn' /\ (j'.state = "A" \/ PassesToA(j'.state) < PassesToA(j.state))
             /\ Pass /\ line = "F" =>
                  ~PowerOn' /\ (j'.state = "F" \/ PassesToF(j'.state) < PassesToF(j.state))
             /\ ~Pass => j'.state = j.state /\ (PowerOn' <=> PowerOn)
    OBVIOUS
  <2>1. CASE Pass
    <3>1. PICK in \in Inputs : in.cp = line /\ Reacts(j, in, j')
      BY <2>1, PassReacts
    <3> QED
      BY <2>1, <3>1 DEF Reacts, LeavesInTime, FaultsInTime, PowerOn
  <2>2. CASE ~Pass
    BY <2>2, OthersLeaveState DEF PowerOn
  <2> QED
    BY <2>1, <2>2
<1> QED
  BY <1>1, Invariance, PTL DEF Spec, SettlesInTwoPasses

\* A stop reaches the contactor: while the EV asks for energy, the next pass opens it, or,
\* from B2 where it was left closed, goes to C2 or D2 without becoming ready, which the
\* pass after that leaves with the contactor open.  (That the power then stays off is
\* StopHolds, which does not hold.)
StopOpensContactor ==
  [][Pass /\ PowerOn /\ ~j.ready /\ line \in {"C", "D"} =>
       \/ ~PowerOn'
       \/ j.state = "B2" /\ j'.state \in {"C2", "D2"} /\ ~j'.ready]_vars
THEOREM StopIsServed == Spec => StopOpensContactor
<1>1. IInv /\ [Next]_vars =>
        [Pass /\ PowerOn /\ ~j.ready /\ line \in {"C", "D"} =>
           \/ ~PowerOn'
           \/ j.state = "B2" /\ j'.state \in {"C2", "D2"} /\ ~j'.ready]_vars
  BY PassReacts DEF Reacts, StopsInTime, PowerOn
<1> QED
  BY <1>1, Invariance, PTL DEF Spec, StopOpensContactor

\* A current above the limit: a pass that finds it in C2 or D2, and every pass in C or D
\* until its hold-off is over, leaves the contactor open.  (A pass from B2 does not look
\* at the fault; the one after it does.)
OverCurrentOpensContactor ==
  [][Pass /\ j.state # "B2" /\ line \in {"C", "D"} /\ j'.overCurrent => ~PowerOn']_vars
THEOREM OverCurrentIsServed == Spec => OverCurrentOpensContactor
<1>1. IInv /\ [Next]_vars =>
        [Pass /\ j.state # "B2" /\ line \in {"C", "D"} /\ j'.overCurrent => ~PowerOn']_vars
  BY PassReacts DEF Reacts, PowerOn
<1> QED
  BY <1>1, Invariance, PTL DEF Spec, OverCurrentOpensContactor
=============================================================================
