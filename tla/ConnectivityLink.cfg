SPECIFICATION Spec
CONSTANTS
  SyncMax = 2
  PingMaxFails = 2
  MaxLinkEvents = 3
  MaxSendErrors = 1
PROPERTY LossDisconnects
