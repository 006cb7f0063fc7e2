SPECIFICATION Spec
CONSTANTS
  SessionIds = {s1}
  s1 = s1
  Grants = {g1}
  g1 = g1
  Assets = {a1}
  a1 = a1
  Threads = {t1, t2}
  t1 = t1
  t2 = t2
  MaxInFlight = 2
  None = None
SYMMETRY Interchangeable
INVARIANTS
  GrantUsedOnce
