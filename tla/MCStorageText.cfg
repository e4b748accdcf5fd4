SPECIFICATION Spec
CONSTANTS
  Documents = {d1, d2}
  Contents = {c1}
  Audits = {a1}
  Workers = {w1}
  NoAudit = NoAudit
  MaxRuns = 2
  d1 = d1
  d2 = d2
  c1 = c1
  a1 = a1
  w1 = w1
INVARIANT PurgedTextGone
CHECK_DEADLOCK FALSE
