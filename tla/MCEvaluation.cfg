SPECIFICATION Spec
CONSTANTS
  Count = 3
  Master <- MCMaster
  Threads = {t1, t2}
  t1 = t1
  t2 = t2
  Threshold = 2
  MaxAttempts = 2
  Answers <- MCAnswers
SYMMETRY ThreadsSymmetry
INVARIANT VerifiedConformity
INVARIANT MajorityOrReview
INVARIANT LateCallsBounded
INVARIANT DependentsExcluded
INVARIANT PerfectMeansMet
CHECK_DEADLOCK FALSE
