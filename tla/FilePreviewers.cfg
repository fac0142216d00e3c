SPECIFICATION Spec
CONSTANTS
  t1 = t1
  t2 = t2
  m1 = m1
  j1 = j1
  j2 = j2
  d1 = d1
  i1 = i1
  dir = dir
  None = None
  Entry = {t1, t2, m1, j1, j2, d1, i1, dir}
  KindOf <- MCKindOf
  MaxPreviews = 4
INVARIANTS TypeOK TextSettles
PROPERTY NeverSuperseded
CHECK_DEADLOCK FALSE
