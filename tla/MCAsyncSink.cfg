SPECIFICATION FairSpec
CONSTANTS
  Producers = {p1, p2}
  EventLevels = {1, 2}
  InnerSinks <- TwoSinks
  MinLevel <- Thresholds
  Width = 4
  Sizes <- SomeSizes
  Units <- SomeUnits
  MaxTickets = 3
  MaxCalls = 2
  Nothing = Nothing
CHECK_DEADLOCK FALSE
INVARIANTS
  TypeOK
  CapacityCoversSize
  InnerSinksGetAll
PROPERTIES
  EventsDelivered
