SPECIFICATION FairSpec
CONSTANTS
  Pieces <- SomePieces
  MaxPieces = 4
  CustomFlags = {"C"}
  Events <- SomeEvents
CHECK_DEADLOCK FALSE
INVARIANTS
  TypeOK
  PatternRendered
  LogfmtReadable
PROPERTIES
  ParseEnds
