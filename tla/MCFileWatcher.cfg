SPECIFICATION FairSpec
CONSTANTS
  Files = {f1, f2}
  Clients = {c1, c2}
  Internals <- AnyPoller
  MaxWatches = 2
  MaxChanges = 2
  MaxAdds = 2
  MaxStops = 2
  MayReuse = TRUE
CHECK_DEADLOCK FALSE
INVARIANTS
  TypeOK
  EntriesMatchWatches
  SilentAfterStop
PROPERTIES
  ChangesReported
  UnhurriedStopReturns
