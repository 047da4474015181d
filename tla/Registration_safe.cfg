SPECIFICATION FairSpec
CONSTANTS
  p1 = p1
  p2 = p2
  Player = {p1, p2}
  NoSequence = NoSequence
  OldLoop = 1
  Prompt = TRUE
  MaxConnects = 3
INVARIANTS
  TypeOK
  EveryPlayerIsRegistered
  NumbersIncrease
PROPERTIES
  PlayersGetRegistered
CHECK_DEADLOCK FALSE
