SPECIFICATION Spec
CONSTANTS
  Users = {u1, u2, u3, u4}
  Workers = {w1}
  Nobody = Nobody
  u1 = u1
  u2 = u2
  u3 = u3
  u4 = u4
  w1 = w1
  MaxRows = 5
SYMMETRY UsersAndWorkersSymmetry
INVARIANT HasOwner
INVARIANT WithinQuota
INVARIANT OwnersActive
PROPERTY DeletionCutsNobody
CHECK_DEADLOCK FALSE
