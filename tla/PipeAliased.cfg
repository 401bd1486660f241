SPECIFICATION Spec
CONSTANTS
  Last = 5
  Programs <- AliasedLoad
  Mtvec = 1
  Regs = {1, 2}
  MaxWord = 1
  Levels = {FALSE}
  BtbWords = 4
PROPERTY Difftest
