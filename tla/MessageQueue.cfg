SPECIFICATION FairSpec
CONSTANTS
  MessageAttempts = 2
  SizeThreshold = 2
  Script <- StartChargeEnd
INVARIANTS TypeOK TxInOrder EventsKept FlightIsWatched OneBoot PromisesSetOnce
PROPERTY TxIsServed
CHECK_DEADLOCK FALSE
