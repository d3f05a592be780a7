CONSTANTS
  i1 = i1
  i2 = i2
  Incident = {i1, i2}
  Kind <- LockKinds
  BankOf <- TwoBanks
  Bank = {"R2119", "R2120"}
  MaxStep = 1
  LinkLostRounds = 1
  LinkLostTime = 0
  LinkRecoveryRounds = 2
  LinkRecoveryTime = 0
  FaultRecoveryRounds = 1
  FaultRecoveryTime = 0
  StopReads = 1
  StopTime = 0
  ModeAckTime = 0
  StartTime = 0
SPECIFICATION FairSpec
INVARIANTS
  FallbackOnFreshStop
  DegradedOnlyByLoss
PROPERTIES
  
  LossNeedsFullRecovery
  StartFailureLatched
  LockHeld
  
