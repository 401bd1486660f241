SPECIFICATION XBarSpec
CONSTANTS
  IAddr = {4}
  DAddr = {6, 16, 32}
  Data = {0, 3}
  BlockWords = 1
  Depth = 1
  None = None
  Half = 2
  NrIntr = 1
  ClintReg <- MCClintReg
  PlicReg <- MCPlicReg
INVARIANTS AnswersInStep TimerQuiet
