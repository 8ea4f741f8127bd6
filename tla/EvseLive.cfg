SPECIFICATION FairSpec
CONSTANTS
  MaxCurrents = {}
  Loads = {16}
  HasVentilation = TRUE
  OvercurrentTest = FALSE
  TxStartPoints = {"EVConnected", "Authorized"}
  TxStopPoints = {"PowerPathClosed"}
  MaxReconnects = 2
  PilotStates = {"B", "C"}
  MaxMoves = 2
  MaxLosses = 1
  MaxRemotes = 1
PROPERTIES OfflineEndsInHalt EvIsGranted
