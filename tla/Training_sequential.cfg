SPECIFICATION Spec
CONSTANTS
  JobIds = {j1, j2}
  j1 = j1
  j2 = j2
  Objects = {o1, o2}
  o1 = o1
  o2 = o2
  Workers = {p1}
  p1 = p1
  Requests = {r1}
  r1 = r1
  EventLoop = EventLoop
  Closer = Closer
  None = None
  Slots = {"model", "train-data"}
  Chunks = 2
  MaxInFlight = 1
  MaxPrepares = 1
SYMMETRY Interchangeable
INVARIANTS
  TypeOK
  TrainsOnOwnInputs
  PlaintextCleaned
  StagedInputsKept
  WorkerUnderControl
  ResultIsOwn
  DeksClearedWhenDelivered
  ShutdownClearsKeys
