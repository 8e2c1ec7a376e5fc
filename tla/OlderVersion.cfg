SPECIFICATION Spec
CONSTANTS
  Shards = {1, 2}
  Pods = {1, 2}
  Versions <- CrossingVersions
  RateNum = 1
  RateDen = 1
  NoPod = NoPod
  NoVersion = NoVersion
INVARIANT NewestVersionOnly
