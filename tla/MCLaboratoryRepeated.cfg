SPECIFICATION Spec
CONSTANTS
  Launches <- Tolerated
  Answers <- MCSilent
  Reessais = 0
  Workers = 1
INVARIANT
  PassedExcludesNone
CHECK_DEADLOCK FALSE
