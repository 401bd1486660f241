SPECIFICATION FairSpec
CONSTANTS
  IAddr = {4}
  DAddr = {5}
  Data = {d1}
  BlockWords = 2
  Depth = 2
  None = None
INVARIANT ReadsConserved
PROPERTIES ArHeld FetchServed DataServed
