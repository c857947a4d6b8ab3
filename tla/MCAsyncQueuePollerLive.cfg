\* Liveness: two queues, and two threads that make three calls, a stop among them.
SPECIFICATION FairSpec
CONSTANTS
  Queues = {q1, q2}
  Clients = {c1, c2}
  NoQueue = NoQueue
  NoClient = NoClient
  Items = {m}
  Nothing = Nothing
  Capacity = 1
  MaxTickets = 2
  MaxCalls = 3
  MayStop = TRUE
CHECK_DEADLOCK FALSE
PROPERTIES
  RemoveAnsweredOrStopped
  EveryEntryHandled
  StopCompletes
