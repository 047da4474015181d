SPECIFICATION Spec
CONSTANTS
  g1 = g1
  g2 = g2
  b1 = b1
  b2 = b2
  l1 = l1
  Group = {g1}
  Balancer = {b1, b2}
  Location = {l1}
  NoGroup = NoGroup
  All = All
  Interval = 2
  Grace = 0
  Margin = 1
  QueryTime = 1
  Prompt = FALSE
  Failing = {}
  MaxTime = 9
  MaxQueue = 2
  MaxLinks = 2
INVARIANTS
  HeldIsAssigned
CHECK_DEADLOCK FALSE
