SPECIFICATION Spec
CONSTANTS
  g1 = g1
  g2 = g2
  l1 = l1
  l2 = l2
  w1 = w1
  w2 = w2
  Group = {g1}
  Location = {l1}
  Worker = {w1, w2}
  Gamestate = {}
  Guest = {}
  Owner <- OwnerG1
  Trigger = {"Write_FlushLocation"}
  Patience = {1}
  Lease = 3
  LostReply = FALSE
  MaxTask = 2
  MaxTime = 3
  NoTask = NoTask
  Missing = Missing
  OldRow = OldRow
  EmptyData = EmptyData
  LocationsIds = LocationsIds
  NoData = NoData
INVARIANTS
  DoneMeansWritten
