SPECIFICATION StaffSpec
CONSTANTS
  c1 = c1
  s1 = s1
  a1 = a1
  a2 = a2
  a3 = a3
  m1 = m1
  i1 = i1
  h1 = h1
  h2 = h2
  q1 = q1
  q2 = q2
  Customers = {c1}
  Staff = {s1}
  Roots = {a1, a2, a3}
  Members = {m1}
  Handlers = {h1, h2}
  Requests = {q1, q2}
  Recoveries = {i1}
  Owner <- OwnerOf
  Named <- NamedBy
  Linked <- LinkedPairs
  LockThreshold <- Thresholds
  MaxLocks = 2
SYMMETRY Alike
INVARIANTS AdminTypeOK
PROPERTIES ResetWasGranted TwoPersonRule LockLiftedAsReviewed
CHECK_DEADLOCK FALSE
