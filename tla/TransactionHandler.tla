------------------------- MODULE TransactionHandler -------------------------
(***************************************************************************)
(* The class that decides when an OCPP transaction starts and stops        *)
(* (transaction_handler.cpp/.hpp), for the single EVSE of this station, as *)
(* operators on one record.  The six booleans of TxStartStopConditions are *)
(* the set of those that are true.                                         *)
(***************************************************************************)
CONSTANTS
  TxStartPoints,   \* the start points and stop points the constructor is given
  TxStopPoints

TxStartStopPoint == {"ParkingBayOccupancy", "EVConnected", "Authorized",
                     "PowerPathClosed", "EnergyTransfer", "DataSigned"}

Conditions == {"authorized", "ev_connected", "parking_bay_occupied",
               "energy_transfered", "signed_data_received", "immediate_reset"}

ASSUME TxPointsAssumption ==
  /\ TxStartPoints \subseteq TxStartStopPoint
  /\ TxStopPoints \subseteq TxStartStopPoint

\* alive: the pointer of the OCPP task is not null.  data: the shared_ptr of the
\* transaction data is null, or its transaction is not yet, or is, started.
HandlerType ==
  [alive : BOOLEAN, conditions : SUBSET Conditions, data : {"null", "new", "started"}]

NoHandler  == [alive |-> FALSE, conditions |-> {}, data |-> "null"]
NewHandler == [alive |-> TRUE, conditions |-> {}, data |-> "null"]

add_transaction_data(h)   == [h EXCEPT !.data = "new"]
reset_transaction_data(h) == [h EXCEPT !.data = "null"]
-----------------------------------------------------------------------------
\* The conditions after an event: TxStartStopConditions::submit_event.
Submitted(c, event) ==
  CASE event = "EV_CONNECTED"               -> c \cup {"ev_connected"}
    [] event = "EV_DISCONNECTED"            -> c \ {"ev_connected", "energy_transfered"}
    [] event = "AUTHORIZED"                 -> c \cup {"authorized"}
    [] event = "DEAUTHORIZED"               -> c \ {"authorized"}
    [] event = "PARKING_BAY_OCCUPIED"       -> c \cup {"parking_bay_occupied"}
    [] event = "PARKING_BAY_UNOCCUPIED"     -> c \ {"parking_bay_occupied"}
    [] event = "ENERGY_TRANSFER_STARTED"    -> c \cup {"energy_transfered"}
    [] event = "ENERGY_TRANSFER_STOPPED"    -> c \ {"energy_transfered"}
    [] event = "SIGNED_START_DATA_RECEIVED" -> c \cup {"signed_data_received"}
    [] event = "IMMEDIATE_RESET"            -> c \cup {"immediate_reset"}
    [] OTHER                                -> c

\* The conditions a start or stop point rests on.
Needs(point) ==
  CASE point = "ParkingBayOccupancy" -> {"parking_bay_occupied"}
    [] point = "EVConnected"         -> {"ev_connected"}
    [] point = "Authorized"          -> {"authorized"}
    [] point = "PowerPathClosed"     -> {"authorized", "ev_connected"}
    [] point = "EnergyTransfer"      -> {"energy_transfered"}
    [] point = "DataSigned"          -> {"signed_data_received"}

is_start_condition_fullfilled(c, point) == Needs(point) \subseteq c

is_stop_condition_fullfilled(c, point) ==
  "immediate_reset" \in c \/ (point # "DataSigned" /\ ~(Needs(point) \subseteq c))

should_transaction_start(h) ==
  h.data = "new" /\ \E p \in TxStartPoints : is_start_condition_fullfilled(h.conditions, p)

should_transaction_stop(h) ==
  h.data = "started" /\ \E p \in TxStopPoints : is_stop_condition_fullfilled(h.conditions, p)

\* TransactionHandler::submit_event is the new handler and the effect returned.
submit_event(h, event) == [h EXCEPT !.conditions = Submitted(@, event)]

Effect(h) ==
  IF should_transaction_start(h) THEN "START_TRANSACTION"
  ELSE IF should_transaction_stop(h) THEN "STOP_TRANSACTION" ELSE "NONE"
=============================================================================
