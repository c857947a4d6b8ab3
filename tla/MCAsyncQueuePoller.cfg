SPECIFICATION Spec
CONSTANTS
  Queues = {q1, q2}
  Clients = {c1, c2}
  NoQueue = NoQueue
  NoClient = NoClient
  Items = {m}
  Nothing = Nothing
  Capacity = 1
  MaxTickets = 2
  MaxCalls = 5
  MayStop = TRUE
SYMMETRY Symmetry
CHECK_DEADLOCK FALSE
INVARIANTS
  TypeOK
  RequestsApplied
  RemovedMeansSilent
  RemoveFlushes
  StopFlushes
