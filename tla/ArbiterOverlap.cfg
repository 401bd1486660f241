SPECIFICATION Spec
CONSTANTS
  IAddr = {4}
  DAddr = {4, 5}
  Data = {d1, d2}
  BlockWords = 2
  Depth = 2
  None = None
PROPERTY ArHeld
