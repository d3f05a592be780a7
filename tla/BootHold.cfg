CONSTANTS
  MaxLevel = 1
  SafetyTime = 1
  InputTime = 2
  TelemetryFresh = 1
  CommandFresh = 2
  HoldTime = 1
  Wrap = 4
  Horizon = 6
  Beats = 1
SPECIFICATION ResumeSpec
PROPERTIES HoldEndsForGood
