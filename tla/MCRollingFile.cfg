SPECIFICATION Spec
CONSTANTS
  Configs <- EveryConfig
  Threshold = 2
  EventSizes = {1, 3}
  Period = 2
  UnitStarts <- UnevenUnits
  Zone = 1
  StampUnit = 3
  Faults = {"rename_base", "open"}
  MaxEvents = 4
  MaxTime = 4
  Unset = Unset
INVARIANTS
  NothingLost
  FilesInOrder
  SizeBounded
  AutomaticRollsInTime
CHECK_DEADLOCK FALSE
