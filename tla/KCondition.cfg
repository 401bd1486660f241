SPECIFICATION Spec
CONSTANTS
  StringOrder <- MCStringOrder
  Type <- MCType
  MODULES = "M"
  Raw <- MCRaw
  Around <- MCAround
  Envs <- MCEnvs
  First = "T"
INVARIANTS MeaningKept SubmenuSound PrintReadsBack
CHECK_DEADLOCK FALSE
