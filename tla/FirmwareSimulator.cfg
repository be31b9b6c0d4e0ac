CONSTANTS
  close = close
  open = open
  silence = silence
  quiet = quiet
  auto = auto
  sound = sound
  None = None
  Commands <- MCCommands
  Kind <- MCKind
  Source <- MCSource
  Invalid = {}
  Expiring = {open}
  CacheSize = 1
  QueueLength = 1
  Scenes <- MCScenes
SPECIFICATION Spec
CHECK_DEADLOCK FALSE
INVARIANTS
  EventsTellEpisode
PROPERTIES
  AcceptedIsAnswered
