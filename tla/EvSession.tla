----------------------------- MODULE EvSession ------------------------------
(***************************************************************************)
(* What the charging stack promises about one outlet, without its pilot    *)
(* states: an EV arrives, is granted energy by the back end, is powered    *)
(* (perhaps several times) and leaves.  Energy is only available to a      *)
(* granted EV, a session is granted once, and it is closed only after the  *)
(* power went off.                                                         *)
(***************************************************************************)
VARIABLES
  plugged,   \* an EV was announced to the back end and has not left
  granted,   \* the back end accepted an EV of this session
  power      \* the contactor is closed

vars == <<plugged, granted, power>>

Init == plugged = FALSE /\ granted = FALSE /\ power = FALSE

PlugIn   == ~plugged /\ ~power /\ plugged' = TRUE /\ granted' = FALSE /\ power' = FALSE
Grant    == plugged /\ ~granted /\ ~power /\ granted' = TRUE /\ UNCHANGED <<plugged, power>>
PowerOn  == plugged /\ granted /\ ~power /\ power' = TRUE /\ UNCHANGED <<plugged, granted>>
PowerOff == power /\ power' = FALSE /\ UNCHANGED <<plugged, granted>>
Leave    == ~power /\ plugged' = FALSE /\ granted' = FALSE /\ UNCHANGED power

Next == PlugIn \/ Grant \/ PowerOn \/ PowerOff \/ Leave

Spec == Init /\ [][Next]_vars
=============================================================================
