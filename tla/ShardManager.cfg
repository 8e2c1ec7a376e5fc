SPECIFICATION FairSpecOfBoth
CONSTANTS
  Shards = {1, 2}
  Pods = {1, 2}
  Versions <- OneVersion
  RateNum = 1
  RateDen = 2
  NoPod = NoPod
  NoVersion = NoVersion
  MaxRegisters = 1
  MaxDeaths = 1
  MaxFaults = 0
  MaxRestarts = 1
INVARIANTS
  TypeOK
  AssignedPodsRegistered
PROPERTIES
  RebalanceEnds
  SuspectsLeave
  RegistrationsSaved
