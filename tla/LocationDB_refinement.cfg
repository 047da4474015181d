SPECIFICATION FairSpec
CONSTANTS
  g1 = g1
  g2 = g2
  l1 = l1
  l2 = l2
  w1 = w1
  w2 = w2
  Group = {g1}
  Location = {l1, l2}
  Worker = {w1, w2}
  Gamestate = {l1}
  Guest = {l1}
  Owner <- OwnerG1
  Trigger = {"Read_LocationsIdsLike", "Write_WriteChangedGameState", "Write_DeleteLocation"}
  Patience = {1}
  Lease = 1
  LostReply = TRUE
  MaxTask = 2
  MaxTime = 2
  NoTask = NoTask
  Missing = Missing
  OldRow = OldRow
  EmptyData = EmptyData
  LocationsIds = LocationsIds
  NoData = NoData
PROPERTIES
  EveryTaskAnswered
  KeepsStorePromise
