SPECIFICATION Spec
CONSTANTS
  g1 = g1
  l1 = l1
  l2 = l2
  Group = {g1}
  this = g1
  Location = {l1}
  Gamestate = {l1}
  Guest = {}
  Lua = FALSE
  Upcalls = {}
  Throws = {}
  Messages = {"logic"}
  Healthy = TRUE
  LostReply = FALSE
  MaxContent = 2
  MaxTask = 3
  Content <- Contents
  NoOperation = NoOperation
  Missing = Missing
  EmptyData = EmptyData
  LocationsIds = LocationsIds
  NoData = NoData
PROPERTIES
  ThrownOutIsSaved
