CONSTANTS
  Regs <- MCRegs
  PmemLeft = 40
  PmemRight = 47
  Garbage = 7
  Expressions <- MCExpressions
SPECIFICATION Spec
INVARIANT UserSees
