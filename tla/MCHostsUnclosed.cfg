SPECIFICATION Spec
CONSTANTS
  InitialTexts <- MCUnclosedTexts
  Configs <- MCConfigs
  Edits = {}
  MaxStarts = 2
  MaxLosses = 0
INVARIANTS
  NonManagedPreserved
CHECK_DEADLOCK FALSE
