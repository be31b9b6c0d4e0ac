SPECIFICATION FairAlarmSpec
CONSTANTS
  VoiceAttempts = 3
  MaxAlarmCommands = 2
INVARIANTS
  SilenceEndsWithEpisode
PROPERTIES
  BuzzerSettles
  WarningRepeats
