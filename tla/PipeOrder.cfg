SPECIFICATION FairSpec
CONSTANTS
  Last = 7
  Programs <- Orders
  Mtvec = 1
  Regs = {1, 2}
  MaxWord = 1
  Levels = {FALSE}
  BtbWords = 16
INVARIANTS TypeOK WordMatchesPC NothingOrphaned
PROPERTIES Difftest NeverStuck
