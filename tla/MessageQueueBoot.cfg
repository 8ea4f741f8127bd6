SPECIFICATION Spec
CONSTANTS
  MessageAttempts = 3
  SizeThreshold = 3
  Script <- JustStarted
INVARIANT BootIsPending
CHECK_DEADLOCK FALSE
