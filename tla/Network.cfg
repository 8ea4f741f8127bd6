SPECIFICATION NetFairSpec
CONSTANTS
  SyncMax = 1
  PingMaxFails = 0
  MaxLinkEvents = 2
  MaxSendErrors = 0
  MaxReconnects = 1
  MaxConnectionAttempts = 1
  TxStartPoints = {"EVConnected", "Authorized"}
  TxStopPoints = {"PowerPathClosed"}
  MaxDeferred = 1
INVARIANTS NetTypeOK OneWayBack QueueFollowsSocket
PROPERTIES ComesBackOrHalts OutageEndsInHalt
