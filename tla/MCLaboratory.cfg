SPECIFICATION FairSpec
CONSTANTS
  Launches <- MCLaunches
  Answers <- MCAnswers
  Reessais = 1
  Workers = 1
INVARIANTS
  ConformProven
  ExclusionProven
  MajorityOrBreach
  PassedIsSound
PROPERTIES
  Ends
CHECK_DEADLOCK FALSE
