SPECIFICATION PoolSpec
CONSTANTS
  w1 = w1
  w2 = w2
  t1 = t1
  r1 = r1
  r2 = r2
  r3 = r3
  q1 = q1
  q2 = q2
  q3 = q3
  m1 = m1
  m2 = m2
  m3 = m3
  k1 = k1
  k2 = k2
  None = None
  Worker = {w1}
  Caller = {w1, t1}
  Repo = {r1, r2}
  Mutex = {m1, m2}
  Limit = 1
  Request = {q1, q2, q3}
  Closer = {k1}
  RepoOf <- MCRepoOf
INVARIANT NoPanic
CHECK_DEADLOCK FALSE
