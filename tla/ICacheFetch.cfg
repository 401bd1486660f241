SPECIFICATION FairSpec
CONSTANTS
  Tags = {1, 2, 3}
  Indexes = {0, 1}
  Address <- MCAddress
  Burstable <- MCBurstable
  blockWords = 2
  Stored <- MCStored
  MaxVer = 1
INVARIANTS Answers NoTwins
PROPERTY FetchAnswered
