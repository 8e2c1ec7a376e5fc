SPECIFICATION SettledSpec
CONSTANTS
  Shards = {1, 2}
  Pods = {1, 2}
  Versions <- OneVersion
  RateNum = 1
  RateDen = 2
  NoPod = NoPod
  NoVersion = NoVersion
  MaxRegisters = 2
  MaxDeaths = 0
  MaxFaults = 0
  MaxRestarts = 0
  MaxEntities = 2
  MaxUnderWay = 1
  MaxKnown = 2
INVARIANTS
  EntityOnSinglePod
