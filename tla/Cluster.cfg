SPECIFICATION OneStartSpec
CONSTANTS
  Shards = {1, 2}
  Pods = {1, 2}
  Versions <- OneVersion
  RateNum = 1
  RateDen = 2
  NoPod = NoPod
  NoVersion = NoVersion
  MaxRegisters = 2
  MaxDeaths = 0
  MaxFaults = 1
  MaxRestarts = 0
  MaxEntities = 0
  MaxUnderWay = 1
  MaxKnown = 0
INVARIANTS
  SingleServer
  SingletonOnce
  TableIsHeld
  PhaseContracts
PROPERTIES
  OnlyReleasedShardsMove
  ImplementsOwnership
