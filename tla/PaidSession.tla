---------------------------- MODULE PaidSession -----------------------------
(***************************************************************************)
(* What the whole station promises about the energy of its outlet: the     *)
(* sessions of EvSession, in which each grant uses up a transaction        *)
(* opened before it.  A transaction may go without a grant, when the CSMS  *)
(* refuses or the EV leaves; a grant never goes without a transaction, so  *)
(* no more EVs are supplied than transactions were opened.                 *)
(***************************************************************************)
EXTENDS Naturals, EvSession

VARIABLES
  opened,    \* transactions opened so far
  grants     \* grants given so far

PaidVars == <<vars, opened, grants>>

PaidInit == Init /\ opened = 0 /\ grants = 0

Open      == opened' = opened + 1 /\ UNCHANGED <<vars, grants>>
PaidGrant == Grant /\ grants < opened /\ grants' = grants + 1 /\ UNCHANGED opened
Unpaid    == (PlugIn \/ PowerOn \/ PowerOff \/ Leave) /\ UNCHANGED <<opened, grants>>

PaidNext == Open \/ PaidGrant \/ Unpaid

PaidSpec == PaidInit /\ [][PaidNext]_PaidVars
=============================================================================
