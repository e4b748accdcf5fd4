SPECIFICATION Spec
CONSTANTS
  Audits = {a1}
  Workers = {w1, w2}
  Scores = {s1}
  NoScore = NoScore
  Nobody = Nobody
  a1 = a1
  s1 = s1
  w1 = w1
  w2 = w2
  MaxRuns = 2
  MaxReports = 1
  MaxDocs = 1
INVARIANT DegradedWithoutScore
CHECK_DEADLOCK FALSE
