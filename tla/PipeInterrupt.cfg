SPECIFICATION FairSpec
CONSTANTS
  Last = 6
  Programs <- Loops
  Mtvec = 1
  Regs = {1, 2}
  MaxWord = 1
  Levels = {TRUE, FALSE}
  BtbWords = 16
PROPERTIES Difftest InterruptServed
