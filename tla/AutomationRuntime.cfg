SPECIFICATION Spec
CONSTANTS
  Rules <- MCRules
  Scenes <- MCScenes
  Observers = {"mqtt"}
  MaxCommands = 4
  MaxRetries = 1
  None = None
CHECK_DEADLOCK FALSE
INVARIANTS
  RetriesAreBounded
  DelayFiresOnce
  OneOpenCommand
PROPERTIES
  SystemYields
  ClaimReleased
  KeepsTrying
