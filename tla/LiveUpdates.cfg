SPECIFICATION FairLiveSpec
CONSTANTS
  c1 = c1
  c2 = c2
  g1 = g1
  g2 = g2
  Commands = {c1, c2}
  Gateways = {g1, g2}
  Cap = 2
  EventCap = 2
  MaxRows = 4
  MaxWire = 1
  LiveScenes <- MCScenes
  Null = Null
CHECK_DEADLOCK FALSE
PROPERTIES
  SeenEndStands
  ImplementsLeasedWork
  PendingClears
