SPECIFICATION FairSpec
CONSTANTS
  Schedules = {s1}
  Audits = {a1}
  Workers = {w1, w2}
  Tickers = {t1, t2}
  NoAudit = NoAudit
  NoSchedule = NoSchedule
  Nobody = Nobody
  MaxCount = 2
  s1 = s1
  a1 = a1
  w1 = w1
  w2 = w2
  t1 = t1
  t2 = t2
INVARIANT ServedOnce
PROPERTY CancelledStays
CHECK_DEADLOCK FALSE
PROPERTY DueHandled
