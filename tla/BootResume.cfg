CONSTANTS
  MaxLevel = 1
  SafetyTime = 1
  InputTime = 2
  TelemetryFresh = 0
  CommandFresh = 1
  HoldTime = 1
  Wrap = 8
  Horizon = 3
  Beats = 2
SPECIFICATION FairResumeSpec
PROPERTIES AdoptsWhatRuns NoSecondChance AttemptSettles
