SPECIFICATION FairSpec
CONSTANTS
  JobIds = {j1}
  j1 = j1
  Objects = {o1}
  o1 = o1
  Workers = {p1}
  p1 = p1
  Requests = {r1, r2}
  r1 = r1
  r2 = r2
  EventLoop = EventLoop
  Closer = Closer
  None = None
  Slots = {"model"}
  Chunks = 1
  MaxInFlight = 2
  MaxPrepares = 1
PROPERTIES
  CancelResolves
  RunningEnds
  CloseEnds
