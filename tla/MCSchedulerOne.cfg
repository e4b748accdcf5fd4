SPECIFICATION Spec
CONSTANTS
  Schedules = {s1, s2}
  Audits = {a1}
  Workers = {w1, w2}
  Tickers = {t1}
  NoAudit = NoAudit
  NoSchedule = NoSchedule
  Nobody = Nobody
  MaxCount = 2
  s1 = s1
  s2 = s2
  a1 = a1
  w1 = w1
  w2 = w2
  t1 = t1
INVARIANT OneScheduleEach
CHECK_DEADLOCK FALSE
