SPECIFICATION Spec
CONSTANTS
  Commands = {c1, c2}
  Invalid = {}
  Expiring = {c1}
  CacheSize = 2
  QueueLength = 1
  MaxDeliveries = 3
  MaxInterrupts = 1
  None = None
CHECK_DEADLOCK FALSE
INVARIANTS
  AcceptedFirst
  ExecutedOnce
  AnswersAgree
PROPERTIES
  EveryCommandIsAnswered
