\* Two producers and two threads that poll, on a ring of two slots that wraps.
SPECIFICATION FairSpec
CONSTANTS
  p1 = p1
  p2 = p2
  a = a
  b = b
  Producers = {p1, p2}
  Consumers = {c1, c2}
  Items = {a, b}
  Brings <- OneEach
  Nothing = Nothing
  Capacity = 2
  MaxTickets = 4
CHECK_DEADLOCK FALSE
INVARIANTS
  TypeOK
  SlotExclusive
  Lifetimes
  DeliveredInTicketOrder
PROPERTIES
  FailureIsJustified
  ImplementsTicketQueue
  EveryPushDelivered
