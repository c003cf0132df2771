SPECIFICATION Spec
CONSTANTS
  InitialTexts <- MCPlainTexts
  Configs <- MCConfigs
  Edits <- MCEdits
  MaxStarts = 2
  MaxLosses = 0
INVARIANTS
  NonManagedPreserved
CHECK_DEADLOCK FALSE
