SPECIFICATION OneStartSpec
CONSTANTS
  Shards = {1}
  Pods = {1}
  Versions <- OneVersion
  RateNum = 1
  RateDen = 2
  NoPod = NoPod
  NoVersion = NoVersion
  MaxRegisters = 2
  MaxDeaths = 1
  MaxFaults = 1
  MaxRestarts = 1
  MaxEntities = 1
  MaxUnderWay = 1
  MaxKnown = 1
INVARIANTS
  ClusterTypeOK
  HeldShardsKnown
