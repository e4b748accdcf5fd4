SPECIFICATION Spec
CONSTANTS
  Users = {u1, u2}
  Workers = {w1, w2}
  Nobody = Nobody
  u1 = u1
  u2 = u2
  w1 = w1
  w2 = w2
  MaxRows = 3
SYMMETRY UsersAndWorkersSymmetry
INVARIANT NoOrphanMembership
PROPERTY OwnerEvictedByOwner
CHECK_DEADLOCK FALSE
