SPECIFICATION FairSpec
CONSTANTS
  Documents = {d1, d2}
  Contents = {c1, c2}
  Audits = {a1, a2}
  Workers = {w1}
  NoAudit = NoAudit
  MaxRuns = 2
  d1 = d1
  d2 = d2
  c1 = c1
  c2 = c2
  a1 = a1
  a2 = a2
  w1 = w1
INVARIANT MissingWasExpired
INVARIANT PurgedNotIndexedAgain
PROPERTY ExpiredPurged
CHECK_DEADLOCK FALSE
