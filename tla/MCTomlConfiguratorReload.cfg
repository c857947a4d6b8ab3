SPECIFICATION Spec
CONSTANTS
  Names <- SomeNames
  Clients = {c1}
  Levels = {1, 2}
  MaxLoggers = 3
  Configs <- ParentFirst
  MaxSetups = 1
  MaxReloads = 1
CHECK_DEADLOCK FALSE
INVARIANT ReloadKeepsLevels
