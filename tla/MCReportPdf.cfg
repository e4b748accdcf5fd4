SPECIFICATION FairSpec
CONSTANTS
  Reports = {r1, r2}
  Workers = {w1, w2, w3}
  Nobody = Nobody
  r1 = r1
  r2 = r2
  w1 = w1
  w2 = w2
  w3 = w3
PROPERTY ConvertedOnce
PROPERTY DownloadsEnd
CHECK_DEADLOCK FALSE
