SPECIFICATION Spec
CONSTANTS
  MaxCurrents = {}
  Loads = {16}
  HasVentilation = TRUE
  OvercurrentTest = FALSE
  TxStartPoints = {"EVConnected", "Authorized"}
  TxStopPoints = {"PowerPathClosed"}
  MaxReconnects = 1
  PilotStates = {"A", "B", "C"}
  MaxMoves = 4
  MaxLosses = 1
  MaxRemotes = 1
INVARIANTS TypeOK NoOrphanTransaction OneGrantPerTransaction StopFindsData
PROPERTIES LedgerSpec EnergyIsPaid
