CONSTANTS
  StringOrder <- MCStringOrder
  Texts <- MCTexts
  Configs <- MCConfigs
  Names <- MCNames
  Typed <- MCTyped
  MaxCommands = 3
SPECIFICATION Spec
CHECK_DEADLOCK FALSE
INVARIANTS TreeKeepsText RecursionRejected ValuesKept LeavesSaved Reproduced Rebuilt
PROPERTIES NothingLost FilesSpec
