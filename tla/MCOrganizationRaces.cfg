\* Each of these is violated; TLC stops at the first, so keep one at a time.
SPECIFICATION Spec
CONSTANTS
  Users = {u1, u2}
  Workers = {w1, w2}
  Nobody = Nobody
  u1 = u1
  u2 = u2
  w1 = w1
  w2 = w2
  MaxRows = 4
INVARIANT HasOwner
INVARIANT WithinQuota
INVARIANT RetentionOnCabinet
INVARIANT OwnersActive
INVARIANT BlockersListed
PROPERTY DeletionCutsNobody
CHECK_DEADLOCK FALSE
