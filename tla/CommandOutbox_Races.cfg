SPECIFICATION FairSpec
CONSTANTS
  Commands = {c1}
  Gateways = {g1}
  MaxAttempts = 3
  MaxInterrupts = 2
  Serial = FALSE
  None = None
INVARIANTS
  QueuedIsInOutbox
PROPERTIES
  OnlyOvertakenGoBack
  EveryCommandEnds
