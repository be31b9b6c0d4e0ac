SPECIFICATION FairWindowSpec
CONSTANTS
  MaxWindowCommands = 3
  MaxRestarts = 2
INVARIANTS
  PriorityIsStored
PROPERTIES
  ManualTargetIsReached
