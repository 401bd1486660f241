SPECIFICATION CoreSpec
CONSTANTS
  Tags = {1, 2}
  Indexes = {0, 1}
  Address <- MCAddress
  Burstable <- MCBurstable
  blockWords = 2
  Stored <- MCStored
  MaxVer = 1
INVARIANT FenceI
