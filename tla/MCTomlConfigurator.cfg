SPECIFICATION FairSpec
CONSTANTS
  Names <- SomeNames
  Clients = {c1}
  Levels = {1, 2}
  MaxLoggers = 3
  Configs <- EveryConfig
  MaxSetups = 2
  MaxReloads = 1
CHECK_DEADLOCK FALSE
INVARIANTS
  SinksFollowLines
  AnswersAsConfigured
  EarlyFollowDefault
  NoEventWasted
PROPERTIES
  ConfigurationEnds
