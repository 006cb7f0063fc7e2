SPECIFICATION Spec
CONSTANTS
  JobIds = {j1}
  j1 = j1
  Objects = {o1, o2}
  o1 = o1
  o2 = o2
  Workers = {p1}
  p1 = p1
  Requests = {r1}
  r1 = r1
  EventLoop = EventLoop
  Closer = Closer
  None = None
  Slots = {"model"}
  Chunks = 1
  MaxInFlight = 1
  MaxPrepares = 2
SYMMETRY Interchangeable
INVARIANTS
  StagedInputsKept
