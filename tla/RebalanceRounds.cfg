SPECIFICATION Spec
CONSTANTS
  Shards = {1, 2, 3, 4, 5}
  Pods = {1, 2, 3}
  Versions <- OrderedVersions
  RateNum = 1
  RateDen = 4
  NoPod = NoPod
  NoVersion = NoVersion
INVARIANTS
  TypeOK
  NewestVersionOnly
  NeverMovesBack
PROPERTIES
  NoShardSwaps
  FreshRoundsEvenOut
  FreshRoundBalances
