\* Five requests of four kinds over three layouts, caches of two entries.
SPECIFICATION Spec
CONSTANTS
  k1 = k1
  k2 = k2
  k3 = k3
  k4 = k4
  l1 = l1
  l2 = l2
  l3 = l3
  NoLayout = NoLayout
  Kinds = {k1, k2, k3, k4}
  Layouts = {l1, l2, l3}
  Layout <- MCLayout
  Capacity = 2
  MaxRequests = 5
INVARIANTS
  TypeOK
  OnlyVerifiedReused
  OneOwner
  OutputsHonest
\* A session that has ended does nothing more.
CHECK_DEADLOCK FALSE
