SPECIFICATION Spec
CONSTANTS
  Schedules = {s1}
  Audits = {a1}
  Workers = {w1}
  Tickers = {t1}
  NoAudit = NoAudit
  NoSchedule = NoSchedule
  Nobody = Nobody
  MaxCount = 2
  s1 = s1
  a1 = a1
  w1 = w1
  t1 = t1
INVARIANT MailedIsRecorded
CHECK_DEADLOCK FALSE
