CONSTANTS
  hp1 = hp1
  hp2 = hp2
  Hps <- Duo
  Configured <- Single
  Snapshots = 2
  RetryTime = 2
SPECIFICATION FairSpec
INVARIANTS
  SavedLockSurvives
  FaultFreeIsDurable
  
PROPERTY LocksGetSaved
