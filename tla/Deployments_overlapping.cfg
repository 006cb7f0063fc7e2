SPECIFICATION FairSpec
CONSTANTS
  Ids = {d1}
  d1 = d1
  Objects = {o1}
  o1 = o1
  Streams = {x1}
  x1 = x1
  Children = {p1}
  p1 = p1
  Ports = {k1}
  k1 = k1
  Sessions = {s1}
  s1 = s1
  Requests = {r1, r2}
  r1 = r1
  r2 = r2
  EventLoop = EventLoop
  Closer = Closer
  None = None
  Chunks = 1
  MaxInFlight = 2
  MaxRestarts = 0
INVARIANTS
  NoCredentialWithoutAuthorization
PROPERTIES
  RequestsReturn
  LockReleased
