SPECIFICATION FairSpec
CONSTANTS
  g1 = g1
  l1 = l1
  l2 = l2
  Group = {g1}
  this = g1
  Location = {l1}
  Gamestate = {l1}
  Guest = {}
  Lua = TRUE
  Upcalls = {}
  Throws = {}
  Messages = {"flush"}
  Healthy = FALSE
  LostReply = TRUE
  MaxContent = 1
  MaxTask = 2
  Content <- Contents
  NoOperation = NoOperation
  Missing = Missing
  EmptyData = EmptyData
  LocationsIds = LocationsIds
  NoData = NoData
INVARIANTS
  ScriptMatchesStatus
  WriteTasksWillBeAnswered
PROPERTIES
  UrgentReleaseEnds
