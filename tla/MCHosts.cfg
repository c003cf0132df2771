SPECIFICATION Spec
CONSTANTS
  InitialTexts <- MCInitialTexts
  Configs <- MCConfigs
  Edits <- MCEdits
  MaxStarts = 2
  MaxLosses = 1
INVARIANTS
  TypeOK
  NeverTorn
  ReadyMeansCurrent
PROPERTIES
  RenameKeepsUnmanaged
  RestartIsIdempotent
CHECK_DEADLOCK FALSE
