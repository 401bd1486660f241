SPECIFICATION Spec
CONSTANTS
  Last = 6
  Programs <- TrapLost
  Mtvec = 1
  Regs = {1, 2}
  MaxWord = 1
  Levels = {TRUE, FALSE}
  BtbWords = 16
PROPERTY Difftest
