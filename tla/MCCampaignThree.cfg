SPECIFICATION Spec
CONSTANTS
  Audits = {a1}
  Workers = {w1, w2, w3}
  Scores = {s1}
  NoScore = NoScore
  Nobody = Nobody
  a1 = a1
  s1 = s1
  w1 = w1
  w2 = w2
  w3 = w3
  MaxRuns = 2
  MaxReports = 1
  MaxDocs = 1
SYMMETRY WorkersSymmetry
INVARIANT TypeOK
INVARIANT RunExclusive
INVARIANT RunNeverWaits
INVARIANT NoCommittedRunning
INVARIANT FindingsFromOneRun
INVARIANT NoOrphanRows
INVARIANT CompletedHasDocuments
INVARIANT ReportVersionFree
INVARIANT ReportFileMatches
CHECK_DEADLOCK FALSE
