SPECIFICATION Spec
CONSTANTS
  NR_WP = 2
  SLOT_SIZE = 2
  ForkEvery = 2
  DeathLimit = 4
  ResetCycles = 1
  MaxPid = 12
  MaxForkFails = 1
  MaxCmds = 3
  MaxInts = 1
  StepCounts = {2}
  Exprs = {1, 2}
  Duts <- MCDuts
  Modes <- MCModes
INVARIANTS TypeOK WindowKept RefInStep CorruptionCaught
PROPERTIES ReplayReaches BatchEnds
CHECK_DEADLOCK FALSE
