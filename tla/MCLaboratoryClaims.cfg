\* Each of these is violated; TLC stops at the first, so keep one at a time.
SPECIFICATION FairSpec
CONSTANTS
  Launches <- MCLaunches
  Answers <- MCAnswers
  Reessais = 1
  Workers = 1
INVARIANTS
  SystematicReviewed
  NeverCrashes
  PassedIsComplete
CHECK_DEADLOCK FALSE
