SPECIFICATION FairSpec
CONSTANTS
  EventTypes = {smoke, log}
  Triggers = {smoke}
  Bound = 6
  Scenes <- MCScenes
  None = None
CHECK_DEADLOCK FALSE
INVARIANTS
  EffectOnce
  StatusIsTrue
