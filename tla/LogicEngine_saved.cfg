SPECIFICATION Spec
CONSTANTS
  g1 = g1
  l1 = l1
  l2 = l2
  Group = {g1}
  this = g1
  Location = {l1, l2}
  Gamestate = {l1}
  Guest = {}
  Lua = FALSE
  Upcalls = {"Flush", "Release"}
  Throws = {l2}
  Messages = {"logic"}
  Healthy = TRUE
  LostReply = FALSE
  MaxContent = 1
  MaxTask = 2
  Content <- Contents
  NoOperation = NoOperation
  Missing = Missing
  EmptyData = EmptyData
  LocationsIds = LocationsIds
  NoData = NoData
INVARIANTS
  TypeOK
  ScriptMatchesStatus
  WriteTasksWillBeAnswered
  ConfirmedIsRow
PROPERTIES
  NoWriteAfterRelease
