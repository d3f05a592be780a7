CONSTANTS
  ClockMod = 11
  MinOff = 5
  Freshness = 2
  LinkTimeout = 3
SPECIFICATION GuardSpec
INVARIANTS
  RestedWhenAllowed
  SnapshotIsEarned
  
