CONSTANTS
  MaxStarts = 3
  Window = 6
  Wrap = 9
  MaxGap = 3
  Levels <- MCLevels
SPECIFICATION FairLimitSpec
PROPERTIES
  ImplementsQuota
  ReleaseComes
