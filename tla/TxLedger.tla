------------------------------ MODULE TxLedger ------------------------------
(***************************************************************************)
(* What the CSMS may rely on about the transactions of one outlet: a       *)
(* transaction is opened when none is open, reports the id token of its EV *)
(* at most once, and is ended.                                             *)
(***************************************************************************)
VARIABLES
  open,      \* a TransactionEvent(Started) was sent and no Ended since
  reported   \* the open transaction has reported an id token

Init == open = FALSE /\ reported = FALSE

Started == ~open /\ open' = TRUE /\ reported' = FALSE
IdToken == open /\ ~reported /\ reported' = TRUE /\ UNCHANGED open
Ended   == open /\ open' = FALSE /\ reported' = FALSE

Next == Started \/ IdToken \/ Ended

Spec == Init /\ [][Next]_<<open, reported>>
=============================================================================
