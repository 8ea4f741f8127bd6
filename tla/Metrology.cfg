SPECIFICATION FairSpec
CONSTANTS
  BufSamples = 3
  QueueLength = 3
  ReadPeriod = 2
  MaxCrcErrors = 2
INVARIANTS TypeOK NoLostBuffer WholeCycle
PROPERTY MeteringGoesOn
