SPECIFICATION Spec
CONSTANTS
  Last = 7
  Programs <- LostJump
  Mtvec = 1
  Regs = {1, 2}
  MaxWord = 1
  Levels = {TRUE, FALSE}
  BtbWords = 16
PROPERTY Difftest
