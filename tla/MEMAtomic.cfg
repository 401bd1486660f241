SPECIFICATION FairSpec
CONSTANTS
  Addr = {1, 2}
  Word = {0, 1}
  Insts <- MCInsts
INVARIANTS TypeOK AccessesOnce
PROPERTIES Atomic Retires
