SPECIFICATION FairSpec
CONSTANTS
  Files = {f1}
  Clients = {c1}
  Internals <- OwnPoller
  MaxWatches = 1
  MaxChanges = 2
  MaxAdds = 1
  MaxStops = 1
  MayReuse = FALSE
CHECK_DEADLOCK FALSE
PROPERTY StopReturns
