SPECIFICATION Spec
CONSTANTS
  g1 = g1
  g2 = g2
  l1 = l1
  l2 = l2
  w1 = w1
  w2 = w2
  Group = {g1, g2}
  Location = {l1}
  Worker = {w1, w2}
  Gamestate = {}
  Guest = {}
  Owner <- OwnerG1
  Trigger = {"Read_ProcessMessage", "Write_FlushLocation", "Write_CreateLocation", "Write_DeleteLocation"}
  Patience = {1}
  Lease = 2
  LostReply = FALSE
  MaxTask = 2
  MaxTime = 2
  NoTask = NoTask
  Missing = Missing
  OldRow = OldRow
  EmptyData = EmptyData
  LocationsIds = LocationsIds
  NoData = NoData
SYMMETRY Workers
INVARIANTS
  TypeOK
  OneOperationPerLocation
  EveryTriggerHasOneTask
  DeadlinesMatchQueue
PROPERTIES
  PriorityGoesFirst
  AnswersAgreeWithDatabase
  NewestContentStays
