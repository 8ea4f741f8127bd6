SPECIFICATION FairSpec
CONSTANTS
  Period = 15999
  Duties = {0, 100, 267, 960, 1000}
  Codes = {26511, 23844, 20733, 25178, 32500}
  LowCode = 10956
INVARIANTS TypeOK SamplesHighPart
PROPERTIES ToldAfterThree LineIsFollowed
