SPECIFICATION Spec
CONSTANTS
  PatternKey <- MCPatternKey
  Configs <- MCConfigs
  Responses <- MCResponses
  MaxTime = 4
  MaxEvents = 4
  MaxReloads = 2
  None = None
CHECK_DEADLOCK FALSE
INVARIANTS
  CountsMatchWindow
  StagedAsAsked
PROPERTIES
  AsksWhenItRepeats
  NoRepetitionIsMissed
