SPECIFICATION Spec
CONSTANTS
  Workers = {w1, w2}
  Clients = {c1}
  w1 = w1
  w2 = w2
  c1 = c1
  MaxFailed = 2
  MaxSessions = 3
  MaxEpoch = 1
SYMMETRY Symmetry
INVARIANT RevokedAtOnce
INVARIANT FailuresLock
PROPERTY HandsOn
PROPERTY ReplayKillsOnlyLost
CHECK_DEADLOCK FALSE
