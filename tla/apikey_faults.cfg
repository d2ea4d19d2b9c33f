SPECIFICATION Spec
CONSTANTS
  Key = {k1, k2, k3}
  Instance = {i1}
  Request = {r1}
  Nothing = Nothing
  Grace = 2
  Second = 2
  Faulty = TRUE
  MaxTime = 5
SYMMETRY Symmetry
INVARIANTS
  TypeOK
  ServesItsKey
PROPERTIES
  GraceHeld
  RetiredKeyExpires
