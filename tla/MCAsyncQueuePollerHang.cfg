SPECIFICATION FairSpec
CONSTANTS
  Queues = {q1}
  Clients = {c1, c2}
  NoQueue = NoQueue
  NoClient = NoClient
  Items = {m}
  Nothing = Nothing
  Capacity = 1
  MaxTickets = 1
  MaxCalls = 4
  MayStop = TRUE
CHECK_DEADLOCK FALSE
PROPERTIES
  RemoveAnswered
