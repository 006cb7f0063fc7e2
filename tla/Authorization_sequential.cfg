SPECIFICATION Spec
CONSTANTS
  SessionIds = {s1, s2}
  s1 = s1
  s2 = s2
  Grants = {g1, g2}
  g1 = g1
  g2 = g2
  Assets = {a1, a2}
  a1 = a1
  a2 = a2
  Threads = {t1}
  t1 = t1
  MaxInFlight = 1
  None = None
SYMMETRY Interchangeable
INVARIANTS
  TypeOK
PROPERTIES
  OneTimeUse
