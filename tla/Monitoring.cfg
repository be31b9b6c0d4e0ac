SPECIFICATION Spec
CONSTANTS
  w1 = w1
  w2 = w2
  Instances = {w1, w2}
  MaxLevel = 2
  Threshold = 2
  SedentaryThreshold = 3
  MaxGap = 1
  Gone = Gone
  None = None
  Nobody = Nobody
  Scenes <- MCScenes
CHECK_DEADLOCK FALSE
INVARIANTS
  TypeOK
  ReminderIsEarned
  SitterIsReminded
  PostureIsConfirmed
  OneScheduledRun
PROPERTIES
  IncidentIsSeen
