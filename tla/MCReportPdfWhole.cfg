SPECIFICATION Spec
CONSTANTS
  Reports = {r1, r2}
  Workers = {w1, w2}
  Nobody = Nobody
  r1 = r1
  r2 = r2
  w1 = w1
  w2 = w2
INVARIANT ServedWhole
