CONSTANTS
  hp1 = hp1
  hp2 = hp2
  Hps <- Duo
  Configured <- Duo
  Snapshots = 2
  RetryTime = 1
SPECIFICATION Spec
PROPERTY PartialClearKeepsLatch
