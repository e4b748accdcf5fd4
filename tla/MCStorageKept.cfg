SPECIFICATION Spec
CONSTANTS
  Documents = {d1, d2}
  Contents = {c1}
  Audits = {a1, a2}
  Workers = {w1}
  NoAudit = NoAudit
  MaxRuns = 1
  d1 = d1
  d2 = d2
  c1 = c1
  a1 = a1
  a2 = a2
  w1 = w1
INVARIANT ContentKept
CHECK_DEADLOCK FALSE
