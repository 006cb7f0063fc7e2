SPECIFICATION Spec
CONSTANTS
  Ids = {d1, d2}
  d1 = d1
  d2 = d2
  Objects = {o1, o2}
  o1 = o1
  o2 = o2
  Streams = {x1}
  x1 = x1
  Children = {p1, p2}
  p1 = p1
  p2 = p2
  Ports = {k1}
  k1 = k1
  Sessions = {s1, s2}
  s1 = s1
  s2 = s2
  Requests = {r1}
  r1 = r1
  EventLoop = EventLoop
  Closer = Closer
  None = None
  Chunks = 1
  MaxInFlight = 1
  MaxRestarts = 0
SYMMETRY Interchangeable
INVARIANTS
  InferReachesOwnModel
