SPECIFICATION Spec
CONSTANTS
  a = a
  b = b
  m1 = m1
  m2 = m2
  m3 = m3
  l1 = l1
  l2 = l2
  Group = {a, b}
  Sender = a
  Messages <- ThreeMessages
  Location = {l1, l2}
  LocationOf <- TwoLocations
  NoGroup = NoGroup
  NoSequence = NoSequence
  OldLoop = 1
  MaxMishaps = 2
  MaxPending = 1
  MaxNumber = 2
INVARIANTS
  TypeOK
  NoMessageVanishes
  NoMessageIsCopied
  StableSequence
  WaitersAreAsked
CHECK_DEADLOCK FALSE
